---- MODULE Spec2Model ----
(***************************************************************************)
(* Model of the review sentiment analyser: the text normaliser, the        *)
(* lexicon scorer, the advanced preprocessor, the heuristic subword        *)
(* classifier, the aggregation functions and the HTTP routes.              *)
(*                                                                         *)
(* A text is a sequence of one-character strings.  A JavaScript number is  *)
(* an exact rational [n, d]: d > 0 is the finite value n/d, d = 0 is NaN   *)
(* (n = 0), +Infinity (n > 0) or -Infinity (n < 0).  Rounding of IEEE      *)
(* doubles is not modelled.                                                *)
(***************************************************************************)
EXTENDS Integers, Sequences, FiniteSets, TLC

VARIABLES input, op, out, model

vars == <<input, op, out, model>>

(***************************************************************************)
(* Bounds of the model.                                                    *)
(***************************************************************************)
MaxPieces == 3

(***************************************************************************)
(* Characters and the JavaScript string primitives the code uses.          *)
(***************************************************************************)
LowerAlpha == <<"a","b","c","d","e","f","g","h","i","j","k","l","m",
                "n","o","p","q","r","s","t","u","v","w","x","y","z">>

UpperAlpha == <<"A","B","C","D","E","F","G","H","I","J","K","L","M",
                "N","O","P","Q","R","S","T","U","V","W","X","Y","Z">>

Digits == {"0","1","2","3","4","5","6","7","8","9"}

LowerSet == {LowerAlpha[i] : i \in 1..26}

UpperSet == {UpperAlpha[i] : i \in 1..26}

\* \w of a JavaScript regular expression
WordChars == LowerSet \cup UpperSet \cup Digits \cup {"_"}

\* \s of a JavaScript regular expression (the ASCII part)
SpaceChars == {" ", "\t", "\n", "\r"}

toLowerChar(c) ==
  IF c \in UpperSet
  THEN LowerAlpha[CHOOSE i \in 1..26 : UpperAlpha[i] = c]
  ELSE c

\* String.prototype.toLowerCase
toLowerCase(s) == [i \in 1..Len(s) |-> toLowerChar(s[i])]

\* s.replace(/[^C]/g, ' ') for a negated character class
replaceNotClass(s, C) == [i \in 1..Len(s) |-> IF s[i] \in C THEN s[i] ELSE " "]

\* number of matches of /[C]/g in s: (s.match(/[C]/g) || []).length
countClass(s, C) == Cardinality({i \in 1..Len(s) : s[i] \in C})

\* first index >= from whose character is in C (Len(s)+1 when none)
firstIn(s, C, from) ==
  IF \E i \in from..Len(s) : s[i] \in C
  THEN CHOOSE i \in from..Len(s) : s[i] \in C /\ \A j \in from..(i-1) : s[j] \notin C
  ELSE Len(s) + 1

\* first index >= from whose character is not in C (Len(s)+1 when none)
firstNotIn(s, C, from) ==
  IF \E i \in from..Len(s) : s[i] \notin C
  THEN CHOOSE i \in from..Len(s) : s[i] \notin C /\ \A j \in from..(i-1) : s[j] \in C
  ELSE Len(s) + 1

\* s.replace(/\s+/g, ' ')
\* the positions of s that start a match of /\s+/ or hold another character
runStarts(s) ==
  {i \in 1..Len(s) : s[i] \in SpaceChars => (i = 1 \/ s[i-1] \notin SpaceChars)}

\* the k-th smallest element of a set of positions
kthPosition(positions, k) ==
  CHOOSE i \in positions : Cardinality({j \in positions : j <= i}) = k

collapseSpacesAt(s, positions) ==
  [k \in 1..Cardinality(positions) |->
     IF s[kthPosition(positions, k)] \in SpaceChars
     THEN " " ELSE s[kthPosition(positions, k)]]

collapseSpaces(s) == collapseSpacesAt(s, runStarts(s))

\* String.prototype.trim
trim(s) ==
  LET a == firstNotIn(s, SpaceChars, 1)
  IN IF a > Len(s) THEN <<>>
     ELSE LET b == CHOOSE i \in a..Len(s) :
                     s[i] \notin SpaceChars /\ \A j \in (i+1)..Len(s) : s[j] \in SpaceChars
          IN SubSeq(s, a, b)

\* s.split(c) for a one-character separator class: every separator character
\* ends a piece, so "" gives [""] and "a  b" gives ["a", "", "b"]
RECURSIVE splitEach(_, _)
splitEach(s, C) ==
  LET i == firstIn(s, C, 1)
  IN IF i > Len(s) THEN <<s>>
     ELSE <<SubSeq(s, 1, i - 1)>> \o splitEach(SubSeq(s, i + 1, Len(s)), C)

\* s.split(/[C]+/): every maximal run of separator characters ends a piece
RECURSIVE splitRuns(_, _)
splitRuns(s, C) ==
  LET i == firstIn(s, C, 1)
  IN IF i > Len(s) THEN <<s>>
     ELSE <<SubSeq(s, 1, i - 1)>>
          \o splitRuns(SubSeq(s, firstNotIn(s, C, i), Len(s)), C)

\* the TLA+ string spelled by a sequence of characters
RECURSIVE str(_)
str(s) == IF s = <<>> THEN "" ELSE Head(s) \o str(Tail(s))

\* the concatenation of a sequence of sequences
RECURSIVE concat(_)
concat(ss) == IF ss = <<>> THEN <<>> ELSE Head(ss) \o concat(Tail(ss))

\* the elements of a sequence, as a set (new Set(array))
setOf(s) == {s[i] : i \in 1..Len(s)}

RECURSIVE sumSeq(_)
sumSeq(s) == IF s = <<>> THEN 0 ELSE Head(s) + sumSeq(Tail(s))

(***************************************************************************)
(* JavaScript numbers as exact rationals.                                  *)
(***************************************************************************)
Num(i) == [n |-> i, d |-> 1]

Zero == Num(0)

NaN == [n |-> 0, d |-> 0]

sign(i) == IF i > 0 THEN 1 ELSE IF i < 0 THEN 0 - 1 ELSE 0

abs(i) == IF i < 0 THEN 0 - i ELSE i

\* a / b for integers a, b: 0/0 is NaN, a/0 is +-Infinity
jsDiv(a, b) ==
  IF b = 0 THEN [n |-> sign(a), d |-> 0]
  ELSE IF b < 0 THEN [n |-> 0 - a, d |-> 0 - b]
  ELSE [n |-> a, d |-> b]

isNaN(x) == x.d = 0 /\ x.n = 0

isFinite(x) == x.d > 0

\* x * k for an integer k > 0
mulInt(x, k) == IF x.d = 0 THEN x ELSE [n |-> x.n * k, d |-> x.d]

\* x === y (false when either side is NaN)
numEq(x, y) ==
  /\ ~isNaN(x) /\ ~isNaN(y)
  /\ IF x.d = y.d THEN x.n = y.n
     ELSE IF x.d = 0 \/ y.d = 0 THEN FALSE
     ELSE x.n * y.d = y.n * x.d

\* x < y (false when either side is NaN)
numLt(x, y) ==
  /\ ~isNaN(x) /\ ~isNaN(y)
  /\ IF x.d = y.d THEN x.n < y.n
     ELSE IF x.d = 0 THEN x.n < 0
     ELSE IF y.d = 0 THEN y.n > 0
     ELSE x.n * y.d < y.n * x.d

\* x + y for two finite numbers
numAdd(x, y) ==
  IF x.d = y.d THEN [n |-> x.n + y.n, d |-> x.d]
  ELSE [n |-> x.n * y.d + y.n * x.d, d |-> x.d * y.d]

\* x || 0: NaN and 0 are falsy
orZero(x) == IF isNaN(x) \/ (x.d > 0 /\ x.n = 0) THEN Zero ELSE x

\* Math.abs
numAbs(x) == [n |-> abs(x.n), d |-> x.d]

\* Math.min(x, y): NaN when either side is NaN
numMin(x, y) == IF isNaN(x) \/ isNaN(y) THEN NaN ELSE IF numLt(y, x) THEN y ELSE x

\* Math.max(x, y): NaN when either side is NaN
numMax(x, y) == IF isNaN(x) \/ isNaN(y) THEN NaN ELSE IF numLt(x, y) THEN y ELSE x

(***************************************************************************)
(* textPreprocessing: preprocessText, removeStopWords, extractFeatures.    *)
(***************************************************************************)
\* preprocessText collapsing the whitespace before it replaces the punctuation
preprocessTextCollapseFirst(text) ==
  LET lowered == toLowerCase(text)
      collapsed == trim(collapseSpaces(lowered))
  IN replaceNotClass(collapsed, WordChars \cup SpaceChars)

preprocessText(text) ==
  LET lowered == toLowerCase(text)
      replaced == replaceNotClass(lowered, WordChars \cup SpaceChars)
  IN trim(collapseSpaces(replaced))

BasicStopWords ==
  {"a", "an", "and", "are", "as", "at", "be", "by", "for", "from",
   "has", "he", "in", "is", "it", "its", "of", "on", "that", "the",
   "to", "was", "will", "with", "i", "me", "my", "we", "our"}

keepBasicWord(word) == str(word) \notin BasicStopWords /\ Len(word) > 2

\* Array.prototype.join(' ')
RECURSIVE joinSpace(_)
joinSpace(ws) ==
  IF ws = <<>> THEN <<>>
  ELSE IF Len(ws) = 1 THEN ws[1]
  ELSE ws[1] \o <<" ">> \o joinSpace(Tail(ws))

removeStopWords(text) == joinSpace(SelectSeq(splitEach(text, {" "}), keepBasicWord))

extractFeatures(text) ==
  LET words == splitEach(text, {" "})
      wordCount == Len(words)
      total == sumSeq([i \in 1..Len(words) |-> Len(words[i])])
      uniqueWords == Cardinality(setOf(words))
  IN [wordCount |-> wordCount,
      avgWordLength |-> orZero(jsDiv(total, wordCount)),
      uniqueWords |-> uniqueWords,
      lexicalDiversity |-> orZero(jsDiv(uniqueWords, wordCount))]

(***************************************************************************)
(* The lexicon lookup of the sentiment package (sentiment.analyze): the    *)
(* tokens of the normalised text are looked up in a word -> integer table, *)
(* the matched values are summed and divided by the token count.           *)
(***************************************************************************)
lexiconScore(w) ==
  CASE w = "good" -> 3
    [] w = "bad" -> 0 - 3
    [] w = "love" -> 3
    [] w = "hate" -> 0 - 3
    [] w = "best" -> 3
    [] w = "worst" -> 0 - 3
    [] w = "amazing" -> 4
    [] w = "terrible" -> 0 - 3
    [] OTHER -> 0

tokenizeWords(text) == IF text = <<>> THEN <<>> ELSE splitEach(text, {" "})

isPositiveWord(word) == lexiconScore(str(word)) > 0

isNegativeWord(word) == lexiconScore(str(word)) < 0

sentimentAnalyze(text) ==
  LET tokens == tokenizeWords(preprocessText(text))
      score == sumSeq([i \in 1..Len(tokens) |-> lexiconScore(str(tokens[i]))])
  IN [score |-> score,
      comparative |-> IF Len(tokens) > 0 THEN jsDiv(score, Len(tokens)) ELSE Zero,
      tokens |-> tokens,
      positive |-> SelectSeq(tokens, isPositiveWord),
      negative |-> SelectSeq(tokens, isNegativeWord)]

(***************************************************************************)
(* sentimentAnalyzer: analyzeSentiment, batchAnalyze, aggregateResults.    *)
(***************************************************************************)
Labels == {"Positive", "Negative", "Neutral"}

\* the label branch of analyzeSentiment with >= for > in its first test
labelOfScoreZeroPositive(score) ==
  IF score >= 0 THEN "Positive" ELSE IF score < 0 THEN "Negative" ELSE "Neutral"

\* the label branch of analyzeSentiment
labelOfScore(score) ==
  IF score > 0 THEN "Positive" ELSE IF score < 0 THEN "Negative" ELSE "Neutral"

\* sentimentResult with the confidence left uncapped
sentimentResultNoCap(result, features) ==
  [score |-> result.score,
   comparative |-> result.comparative,
   label |-> labelOfScore(result.score),
   confidence |-> mulInt(numAbs(result.comparative), 100),
   tokens |-> result.tokens,
   positive |-> result.positive,
   negative |-> result.negative,
   features |-> features]

\* the SentimentResult built from the library's result and the features
sentimentResult(result, features) ==
  [score |-> result.score,
   comparative |-> result.comparative,
   label |-> labelOfScore(result.score),
   confidence |-> numMin(mulInt(numAbs(result.comparative), 100), Num(100)),
   tokens |-> result.tokens,
   positive |-> result.positive,
   negative |-> result.negative,
   features |-> features]

analyzeSentiment(text) ==
  LET preprocessed == preprocessText(text)
      withoutStopWords == removeStopWords(preprocessed)
  IN sentimentResult(sentimentAnalyze(text), extractFeatures(preprocessed))

\* batchAnalyze returning the results in reverse order
batchAnalyzeReversed(reviews) ==
  [i \in 1..Len(reviews) |-> analyzeSentiment(reviews[Len(reviews) + 1 - i])]

batchAnalyze(reviews) == [i \in 1..Len(reviews) |-> analyzeSentiment(reviews[i])]

(***************************************************************************)
(* BertTokenizer: the vocabulary, tokenize, getTokenId and encode.         *)
(***************************************************************************)
vocabSize == 30522

maxLength == 512

padTokenId == 0

sepTokenId == 102

clsTokenId == 101

maxSubwordLength == 4

\* the id of commonTokens[i] is i - 1
commonTokens ==
  <<"[PAD]", "[unused0]", "[unused1]", "[unused2]", "[unused3]", "[UNK]",
    "[CLS]", "[SEP]", "[MASK]", "!", "\"", "#", "$", "%", "the", "a", "an",
    "and", "or", "of", "to", "in", "is", "it", "that", "this", "for",
    "from", "with", "by", "on", "at", "as", "was", "be", "been", "being",
    "have", "has", "had", "do", "does", "did", "will", "would", "could",
    "should", "may", "might", "must", "can", "product", "review", "good",
    "bad", "great", "terrible", "amazing", "awful", "love", "hate",
    "quality", "price", "delivery", "excellent", "poor", "recommend",
    "waste", "money", "worth", "value">>

maskTokenId == 103

\* this.config of the BertTokenizer constructor
BertTokenizerConfig ==
  [vocabSize |-> vocabSize,
   maxLength |-> maxLength,
   padTokenId |-> padTokenId,
   maskTokenId |-> maskTokenId,
   sepTokenId |-> sepTokenId,
   clsTokenId |-> clsTokenId]

\* initializeWeights: 0.8 for each of the 7 sentimentTokens, then -0.8 for
\* each of the 7 negativeTokens
initializeWeights == [i \in 1..14 |-> IF i <= 7 THEN jsDiv(8, 10) ELSE jsDiv(0 - 8, 10)]

\* new SimpleBertModel(): the tokenizer's vocabulary (the token of id i is
\* vocab[i + 1]) and configuration, and the weights.  inverseVocab is
\* written by the constructor only and read by decode only; it is left out.
newSimpleBertModel ==
  [vocab |-> commonTokens,
   config |-> BertTokenizerConfig,
   sentimentWeights |-> initializeWeights]

undefined == 0 - 1

\* this.vocab.get(token): the id, or undefined for a token outside the map
vocabGet(token) ==
  IF \E i \in 1..Len(model.vocab) : model.vocab[i] = token
  THEN (CHOOSE i \in 1..Len(model.vocab) : model.vocab[i] = token) - 1
  ELSE undefined

vocabHas(token) == vocabGet(token) # undefined

canBeTokenized(subword) ==
  Len(subword) > 0 /\ \E i \in 1..Len(subword) : subword[i] \in LowerSet \cup Digits

minOf(a, b) == IF a < b THEN a ELSE b

\* one iteration of the while loop choosing the shortest subword
subwordLengthShortest(remaining) ==
  LET top == minOf(maxSubwordLength, Len(remaining))
      found == {i \in 1..top :
                  \/ vocabHas(str(SubSeq(remaining, 1, i)))
                  \/ canBeTokenized(SubSeq(remaining, 1, i))}
  IN IF found = {} THEN 1
     ELSE CHOOSE j \in found : \A k \in found : j <= k

\* one iteration of the while loop: the length of the subword it pushes,
\* the first i from min(maxSubwordLength, remaining.length) down to 1 whose
\* prefix is in the vocabulary or can be tokenized, or 1 when there is none
subwordLength(remaining) ==
  LET top == minOf(maxSubwordLength, Len(remaining))
      found == {i \in 1..top :
                  \/ vocabHas(str(SubSeq(remaining, 1, i)))
                  \/ canBeTokenized(SubSeq(remaining, 1, i))}
  IN IF found = {} THEN 1
     ELSE CHOOSE j \in found : \A k \in found : k <= j

\* the subwords the while loop pushes for one word
RECURSIVE subwordsOf(_)
subwordsOf(remaining) ==
  IF Len(remaining) = 0 THEN <<>>
  ELSE <<SubSeq(remaining, 1, subwordLength(remaining))>>
       \o subwordsOf(SubSeq(remaining, subwordLength(remaining) + 1, Len(remaining)))

\* the words tokenize loops over: the lower-cased text, punctuation
\* replaced by spaces, split at whitespace (empty words are skipped by the
\* loop)
normalizedWords(text) ==
  splitRuns(replaceNotClass(toLowerCase(text), WordChars \cup SpaceChars), SpaceChars)

\* the tokens pushed for the words, in order
tokensOfWords(words) == concat([i \in 1..Len(words) |-> subwordsOf(words[i])])

BertTokenizer_tokenize(text) == tokensOfWords(normalizedWords(text))

\* getTokenId giving the pad id to a token outside the vocabulary
getTokenIdPadForUnknown(token) ==
  IF vocabHas(str(token)) THEN vocabGet(str(token)) ELSE 0

\* a || b || 100 of getTokenId: undefined and 0 are falsy
getTokenId(token) ==
  LET id == vocabGet(str(token))
      unk == vocabGet("[UNK]")
  IN IF id # undefined /\ id # 0 THEN id
     ELSE IF unk # undefined /\ unk # 0 THEN unk
     ELSE 100

\* truncate keeping every token
truncateKeepAll(tokens) == tokens

\* tokens.slice(0, this.config.maxLength - 2)
truncate(tokens) == SubSeq(tokens, 1, minOf(Len(tokens), model.config.maxLength - 2))

\* the loop of encode over the truncated tokens
tokenIds(truncated) == [i \in 1..Len(truncated) |-> getTokenId(truncated[i])]

\* padToMaxLength without the padding
padToMaxLengthNoPadding(ids) ==
  LET used == minOf(Len(ids), model.config.maxLength)
  IN [input_ids |-> SubSeq(ids, 1, used),
      attention_mask |-> [i \in 1..used |-> 1],
      token_type_ids |-> [i \in 1..used |-> 0]]

\* the masks, the padding and the final slices of encode
padToMaxLength(ids) ==
  LET used == Len(ids)
      padLength == IF used < model.config.maxLength THEN model.config.maxLength - used ELSE 0
      input_ids == ids \o [i \in 1..padLength |-> model.config.padTokenId]
      attention_mask == [i \in 1..used |-> 1] \o [i \in 1..padLength |-> 0]
      token_type_ids == [i \in 1..used |-> 0] \o [i \in 1..padLength |-> 0]
  IN [input_ids |-> SubSeq(input_ids, 1, minOf(Len(input_ids), model.config.maxLength)),
      attention_mask |-> SubSeq(attention_mask, 1, minOf(Len(attention_mask), model.config.maxLength)),
      token_type_ids |-> SubSeq(token_type_ids, 1, minOf(Len(token_type_ids), model.config.maxLength))]

\* encode with the class-start and separator markers left out
encodeNoMarkers(text) ==
  padToMaxLength(tokenIds(truncate(BertTokenizer_tokenize(text))))

\* encode from the tokens that tokenize returned
encodeTokens(tokens) ==
  padToMaxLength(<<model.config.clsTokenId>>
                 \o tokenIds(truncate(tokens))
                 \o <<model.config.sepTokenId>>)

encode(text) == encodeTokens(BertTokenizer_tokenize(text))

(***************************************************************************)
(* SimpleBertModel: computeLogits, applySoftmax, getClass, predict.        *)
(*                                                                         *)
(* A logit is [t, k], the value t/10 + ln(k/10): the positive and negative *)
(* logits are multiples of 0.1 (k = 10) and the neutral logit is           *)
(* ln(tokenCount/10) (t = 0).  k = 0 is -Infinity and k < 0 is NaN.        *)
(***************************************************************************)
positiveWords ==
  <<"good", "great", "amazing", "excellent", "love", "best", "perfect",
    "wonderful", "fantastic", "awesome">>

negativeWords ==
  <<"bad", "terrible", "awful", "hate", "worst", "poor", "waste",
    "horrible", "disgusting", "broken">>

\* String.prototype.includes, for a word (characters) and a string
includes(word, sub) ==
  \E i \in 1..(Len(word) - Len(sub) + 1) : str(SubSeq(word, i, i + Len(sub) - 1)) = sub

\* list.some(w => word === w): only a word that is a member of the list
someIncludedWholeWord(word, list) == \E j \in 1..Len(list) : str(word) = list[j]

\* list.some(w => word.includes(w))
someIncluded(word, list) == \E j \in 1..Len(list) : includes(word, list[j])

computeLogits(encoded, originalText) ==
  LET lowerText == toLowerCase(originalText)
      words == splitRuns(lowerText, SpaceChars)
      positiveHits == Cardinality({i \in 1..Len(words) : someIncluded(words[i], positiveWords)})
      negativeHits == Cardinality({i \in 1..Len(words) : someIncluded(words[i], negativeWords)})
      exclamations == countClass(originalText, {"!"})
      questions == countClass(originalText, {"?"})
      attention == encoded.attention_mask
      tokenCount == Cardinality({i \in 1..Len(attention) : attention[i] = 1})
  IN << [t |-> 15 * positiveHits + 3 * exclamations, k |-> 10],
        [t |-> 15 * negativeHits + 2 * questions, k |-> 10],
        [t |-> 0, k |-> tokenCount] >>

logitIsNaN(l) == l.k < 0

logitIsFinite(l) == l.k > 0

\* Math.exp(-x/10) in millionths, x = 0..140 (0 beyond)
ExpMicro ==
  <<1000000, 904837, 818731, 740818, 670320, 606531, 548812, 496585,
    449329, 406570, 367879, 332871, 301194, 272532, 246597, 223130, 201897,
    182684, 165299, 149569, 135335, 122456, 110803, 100259, 90718, 82085,
    74274, 67206, 60810, 55023, 49787, 45049, 40762, 36883, 33373, 30197,
    27324, 24724, 22371, 20242, 18316, 16573, 14996, 13569, 12277, 11109,
    10052, 9095, 8230, 7447, 6738, 6097, 5517, 4992, 4517, 4087, 3698,
    3346, 3028, 2739, 2479, 2243, 2029, 1836, 1662, 1503, 1360, 1231, 1114,
    1008, 912, 825, 747, 676, 611, 553, 500, 453, 410, 371, 335, 304, 275,
    249, 225, 203, 184, 167, 151, 136, 123, 112, 101, 91, 83, 75, 68, 61,
    55, 50, 45, 41, 37, 34, 30, 28, 25, 23, 20, 18, 17, 15, 14, 12, 11, 10,
    9, 8, 8, 7, 6, 6, 5, 5, 4, 4, 3, 3, 3, 2, 2, 2, 2, 2, 2, 1, 1, 1, 1, 1,
    1>>

\* Math.exp(x/10) in thousandths, x = 0..70
ExpMilli ==
  <<1000, 1105, 1221, 1350, 1492, 1649, 1822, 2014, 2226, 2460, 2718, 3004,
    3320, 3669, 4055, 4482, 4953, 5474, 6050, 6686, 7389, 8166, 9025, 9974,
    11023, 12182, 13464, 14880, 16445, 18174, 20086, 22198, 24533, 27113,
    29964, 33115, 36598, 40447, 44701, 49402, 54598, 60340, 66686, 73700,
    81451, 90017, 99484, 109947, 121510, 134290, 148413, 164022, 181272,
    200337, 221406, 244692, 270426, 298867, 330300, 365037, 403429, 445858,
    492749, 544572, 601845, 665142, 735095, 812406, 897847, 992275,
    1096633>>

\* a < b for two logits that are not NaN
logitLess(a, b) ==
  IF b.k = 0 THEN FALSE
  ELSE IF a.k = 0 THEN TRUE
  ELSE LET delta == a.t - b.t
       IN IF delta >= 0
          THEN delta <= 70 /\ a.k * ExpMilli[delta + 1] < b.k * 1000
          ELSE (0 - delta) > 70 \/ a.k * 1000 < b.k * ExpMilli[(0 - delta) + 1]

\* Math.max(...logits)
maxLogit(logits) ==
  CHOOSE m \in setOf(logits) : \A l \in setOf(logits) : ~logitLess(m, l)

\* Math.exp(l - max) in millionths, for l <= max
expOfDifference(l, max) ==
  LET delta == l.t - max.t
  IN IF l.k = 0 THEN 0
     ELSE IF delta >= 0 THEN (l.k * ExpMilli[delta + 1] * 1000) \div max.k
     ELSE IF (0 - delta) > 140 THEN 0
     ELSE (l.k * ExpMicro[(0 - delta) + 1]) \div max.k

\* applySoftmax returning the exponentials without dividing by their sum
applySoftmaxNoDivision(logits) ==
  IF \E i \in 1..3 : logitIsNaN(logits[i]) THEN <<NaN, NaN, NaN>>
  ELSE LET max == maxLogit(logits)
       IN IF max.k = 0 THEN <<NaN, NaN, NaN>>
          ELSE [i \in 1..3 |-> jsDiv(expOfDifference(logits[i], max), 1000000)]

applySoftmax(logits) ==
  IF \E i \in 1..3 : logitIsNaN(logits[i]) THEN <<NaN, NaN, NaN>>
  ELSE LET max == maxLogit(logits)
       IN IF max.k = 0 THEN <<NaN, NaN, NaN>> \* -Infinity - -Infinity
          ELSE LET exps == [i \in 1..3 |-> expOfDifference(logits[i], max)]
                   sum == exps[1] + exps[2] + exps[3]
               IN [i \in 1..3 |-> jsDiv(exps[i], sum)]

\* Math.max(...softmax)
maxProbability(softmax) == numMax(numMax(softmax[1], softmax[2]), softmax[3])

\* getClass taking the last index that holds the maximum
getClassLastIndex(softmax) ==
  LET max == maxProbability(softmax)
  IN IF numEq(softmax[3], max) THEN "neutral"
     ELSE IF numEq(softmax[2], max) THEN "negative"
     ELSE "positive"

\* softmax.indexOf(Math.max(...softmax)): -1 when the maximum is NaN
getClass(softmax) ==
  LET max == maxProbability(softmax)
  IN IF numEq(softmax[1], max) THEN "positive"
     ELSE IF numEq(softmax[2], max) THEN "negative"
     ELSE "neutral"

\* the prediction built from the logits and their softmax
predictionOf(logits, softmax) ==
  [positive |-> softmax[1],
   negative |-> softmax[2],
   neutral |-> softmax[3],
   predicted_class |-> getClass(softmax),
   confidence |-> mulInt(maxProbability(softmax), 100),
   raw_logits |-> logits]

predict(text) ==
  LET encoded == encode(text)
      logits == computeLogits(encoded, text)
  IN predictionOf(logits, applySoftmax(logits))

\* predict keeping the text it was given as a new vocabulary entry
modelAfterPredictCaching(m, text) ==
  IF \E i \in 1..Len(m.vocab) : m.vocab[i] = str(text) THEN m
  ELSE [m EXCEPT !.vocab = Append(@, str(text))]

\* the model instance after predict(text): predict, encode, tokenize,
\* getTokenId, computeLogits, applySoftmax and getClass assign no field
modelAfterPredict(m, text) == m

RECURSIVE modelAfterPredicts(_, _)
\* the model instance after predict on each of the texts in turn
modelAfterPredicts(m, texts) ==
  IF texts = <<>> THEN m
  ELSE modelAfterPredicts(modelAfterPredict(m, Head(texts)), Tail(texts))

(***************************************************************************)
(* advancedPreprocessing: cleanText, tokenize, getLemma, the features and  *)
(* the metadata.                                                           *)
(***************************************************************************)
STOP_WORDS ==
  {"a", "an", "and", "are", "as", "at", "be", "by", "for", "from",
   "has", "he", "in", "is", "it", "its", "of", "on", "that", "the",
   "to", "was", "will", "with", "i", "me", "my", "we", "our", "you",
   "your", "they", "them", "this", "these", "those", "but", "or", "not",
   "can", "could", "should", "would", "may", "might", "must", "have"}

LEMMA_MAP(w) ==
  CASE w \in {"amazing", "amazed"} -> "amaze"
    [] w \in {"terrible", "terribly"} -> "terrible"
    [] w \in {"good", "better", "best"} -> "good"
    [] w \in {"bad", "worse", "worst"} -> "bad"
    [] w \in {"happy", "happily"} -> "happy"
    [] w \in {"sad", "sadly"} -> "sad"
    [] w \in {"running", "runs"} -> "run"
    [] w \in {"walked", "walking", "walks"} -> "walk"
    [] w \in {"bought", "buying", "buys"} -> "buy"
    [] w \in {"broken", "breaking"} -> "break"
    [] w \in {"works", "working", "worked"} -> "work"
    [] w \in {"loved", "loves", "loving"} -> "love"
    [] w \in {"hated", "hates", "hating"} -> "hate"
    [] w \in {"recommend", "recommended", "recommends"} -> "recommend"
    [] OTHER -> w

\* s starts with the characters of p at index i
startsWithAt(s, i, p) ==
  i + Len(p) - 1 <= Len(s) /\ SubSeq(s, i, i + Len(p) - 1) = p

\* s.replace(/https?:\/\/\S+/g, '')
RECURSIVE stripUrls(_)
stripUrls(s) ==
  IF s = <<>> THEN <<>>
  ELSE LET http == <<"h","t","t","p",":","/","/">>
           https == <<"h","t","t","p","s",":","/","/">>
           n == IF startsWithAt(s, 1, https) THEN Len(https)
                ELSE IF startsWithAt(s, 1, http) THEN Len(http)
                ELSE 0
       IN IF n > 0 /\ n < Len(s) /\ s[n + 1] \notin SpaceChars
          THEN stripUrls(SubSeq(s, firstIn(s, SpaceChars, n + 1), Len(s)))
          ELSE <<Head(s)>> \o stripUrls(Tail(s))

\* s.replace(/@\w+/g, '') and s.replace(/#\w+/g, ''), for the sign mark
RECURSIVE stripTagged(_, _)
stripTagged(s, mark) ==
  IF s = <<>> THEN <<>>
  ELSE IF Head(s) = mark /\ Len(s) > 1 /\ s[2] \in WordChars
       THEN stripTagged(SubSeq(s, firstNotIn(s, WordChars, 2), Len(s)), mark)
       ELSE <<Head(s)>> \o stripTagged(Tail(s), mark)

\* the word is a prefix of length len written count >= 3 times
isRepeatOf(word, len) ==
  /\ Len(word) % len = 0
  /\ Len(word) \div len >= 3
  /\ \A i \in 1..Len(word) : word[i] = word[((i - 1) % len) + 1]

\* /\b(\w+)(\1{2,})\b/ on one maximal run of word characters: the greedy
\* first group takes the longest prefix whose repeats fill the whole run
collapseWord(word) ==
  LET lens == {len \in 1..Len(word) : isRepeatOf(word, len)}
  IN IF lens = {} THEN word
     ELSE SubSeq(word, 1, CHOOSE len \in lens : \A m \in lens : m <= len)

\* s.replace(/\b(\w+)(\1{2,})\b/g, '$1')
RECURSIVE collapseRepeats(_)
collapseRepeats(s) ==
  IF s = <<>> THEN <<>>
  ELSE IF Head(s) \in WordChars
       THEN LET e == firstNotIn(s, WordChars, 1)
            IN collapseWord(SubSeq(s, 1, e - 1)) \o collapseRepeats(SubSeq(s, e, Len(s)))
       ELSE <<Head(s)>> \o collapseRepeats(Tail(s))

cleanText(text) ==
  LET lowered == toLowerCase(text)
      noUrls == stripUrls(lowered)
      noMentions == stripTagged(noUrls, "@")
      noTags == stripTagged(noMentions, "#")
      collapsed == collapseRepeats(noTags)
      replaced == replaceNotClass(collapsed,
                                  WordChars \cup SpaceChars \cup {".", "!", "?", "-"})
  IN trim(collapseSpaces(replaced))

SentenceEnds == {".", "!", "?"}

isNotBlank(s) == trim(s) # <<>>

isNotEmpty(s) == Len(s) > 0

tokenize(text) ==
  LET sentences == SelectSeq(splitRuns(text, SentenceEnds), isNotBlank)
  IN concat([i \in 1..Len(sentences) |->
               SelectSeq(splitRuns(trim(sentences[i]), SpaceChars), isNotEmpty)])

isNotStopWord(t) == str(toLowerCase(t)) \notin STOP_WORDS

getLemma(word) == LEMMA_MAP(str(toLowerCase(word)))

\* the class of specialCharCount; the backquote of the source class has no
\* spelling as a string here and is in no input text
SpecialChars ==
  {"!", "@", "#", "$", "%", "^", "&", "*", "(", ")", "_", "+", "=", "-", "[",
   "]", "{", "}", ";", ":", "'", "\"", ",", ".", "<", ">", "/", "?", "\\",
   "|", "~"}

\* a ratio of extractAdvancedFeatures with its count > 0 test left out
unguardedRatio(a, b) == jsDiv(a, b)

\* count > 0 ? a / count : 0, the form of every ratio of extractAdvancedFeatures
guardedRatio(a, b) == IF b > 0 THEN jsDiv(a, b) ELSE Zero

extractAdvancedFeatures(original, tokens) ==
  LET sentences == SelectSeq(splitRuns(original, SentenceEnds), isNotBlank)
      wordCount == Len(tokens)
      sentenceCount == Len(sentences)
      uniqueWords == Cardinality({toLowerCase(tokens[i]) : i \in 1..Len(tokens)})
      total == sumSeq([i \in 1..Len(tokens) |-> Len(tokens[i])])
  IN [wordCount |-> wordCount,
      sentenceCount |-> sentenceCount,
      avgWordLength |-> guardedRatio(total, wordCount),
      avgSentenceLength |-> guardedRatio(wordCount, sentenceCount),
      uniqueWords |-> uniqueWords,
      lexicalDiversity |-> guardedRatio(uniqueWords, wordCount),
      specialCharCount |-> countClass(original, SpecialChars),
      uppercaseRatio |-> guardedRatio(countClass(original, UpperSet), Len(original)),
      exclamationCount |-> countClass(original, {"!"}),
      questionCount |-> countClass(original, {"?"})]

Vowels == {"a", "e", "i", "o", "u", "y"}

maxOf(a, b) == IF a > b THEN a ELSE b

countSyllables(word0) ==
  LET word == toLowerCase(word0)
      n == Len(word)
      onsets == Cardinality({i \in 1..n :
                  word[i] \in Vowels /\ (i = 1 \/ word[i - 1] \notin Vowels)})
      endsE == IF n >= 1 /\ word[n] = "e" THEN 1 ELSE 0
      endsLe == IF n > 2 /\ word[n - 1] = "l" /\ word[n] = "e" /\ word[n - 2] \notin Vowels
                THEN 1 ELSE 0
  IN maxOf(1, onsets - endsE + endsLe)

estimateSyllables(text) ==
  LET words == splitRuns(toLowerCase(text), SpaceChars)
  IN maxOf(1, sumSeq([i \in 1..Len(words) |-> countSyllables(words[i])]))

\* the number of matches of /[C]+/g: the maximal runs of characters of C
countRuns(s, C) ==
  Cardinality({i \in 1..Len(s) : s[i] \in C /\ (i = 1 \/ s[i - 1] \notin C)})

\* 206.835 - 1.015 * (words / sentences) - 84.6 * (syllables / words),
\* as one fraction over 1000 * sentences * words
calculateReadability(text) ==
  LET words == Len(splitRuns(text, SpaceChars))
      sentences == countRuns(text, SentenceEnds)
      syllables == estimateSyllables(text)
      flesch == jsDiv(206835 * sentences * words - 1015 * words * words
                        - 84600 * syllables * sentences,
                      1000 * sentences * words)
  IN IF words = 0 \/ sentences = 0 THEN Zero
     ELSE numMax(Zero, numMin(Num(100), flesch))

\* the matches of /\b[A-Z][A-Z]+\b/g: the maximal runs of word characters
\* made of two or more upper-case letters only
capitalizedWords(text) ==
  Cardinality({i \in 1..Len(text) :
     /\ text[i] \in WordChars
     /\ (i = 1 \/ text[i - 1] \notin WordChars)
     /\ LET e == firstNotIn(text, WordChars, i)
        IN e - i >= 2 /\ \A j \in i..(e - 1) : text[j] \in UpperSet})

\* (exclamations * 0.3 + questions * 0.2 + capitalizedWords * 0.1) * 10
calculateEmotionalIntensity(text) ==
  LET exclamations == countClass(text, {"!"})
      questions == countClass(text, {"?"})
  IN numMin(Num(100), Num(3 * exclamations + 2 * questions + capitalizedWords(text)))

subjectiveWords ==
  <<"amazing", "terrible", "wonderful", "awful", "perfect", "horrible",
    "excellent", "poor", "fantastic", "disgusting", "love", "hate",
    "believe", "think", "feel", "opinion", "personal", "seem", "appear">>

calculateSubjectivity(text) ==
  LET words == splitRuns(toLowerCase(text), SpaceChars)
      matches == Cardinality({i \in 1..Len(words) : someIncluded(words[i], subjectiveWords)})
  IN numMin(Num(100), mulInt(jsDiv(matches, maxOf(1, Len(words))), 100))

extractMetadata(original, cleaned) ==
  [language |-> "en",
   readabilityScore |-> calculateReadability(original),
   emotionalIntensity |-> calculateEmotionalIntensity(original),
   subjectivity |-> calculateSubjectivity(original)]

\* the PreprocessedText built from the original, the cleaned text and its tokens
preprocessedText(original, cleaned, tokens) ==
  LET filtered == SelectSeq(tokens, isNotStopWord)
  IN [original |-> original,
      cleaned |-> cleaned,
      tokens |-> filtered,
      lemmatized |-> [i \in 1..Len(filtered) |-> getLemma(filtered[i])],
      features |-> extractAdvancedFeatures(original, tokens),
      metadata |-> extractMetadata(original, cleaned)]

advancedPreprocess(text) ==
  LET cleaned == cleanText(text)
  IN preprocessedText(text, cleaned, tokenize(cleaned))

(***************************************************************************)
(* The input texts: every concatenation of at most MaxPieces pieces.       *)
(***************************************************************************)
Pieces ==
  << <<"g","o","o","d">>, <<"b","a","d">>, <<"a">>, <<"A">>, <<" ">>,
     <<"\t">>, <<"!">>, <<"?">>, <<".">>, <<"_">>,
     <<"a"," ","a"," ","a"," ","a"," ">>,
     <<"a","m","a","z","i","n","g","g","g","g">> >>

TextsOf(k) == {concat([i \in 1..k |-> Pieces[f[i]]]) : f \in [1..k -> 1..Len(Pieces)]}

Texts == UNION {TextsOf(k) : k \in 0..MaxPieces}

NoResult == [none |-> TRUE]

MaxOverflow == 2

\* the token counts from MaxOverflow below to MaxOverflow above the
\* maxLength - 2 tokens that encode keeps
LongCounts == (maxLength - 2 - MaxOverflow)..(maxLength - 2 + MaxOverflow)

\* the text of n one-letter words "a" separated by single spaces
longText(n) == [i \in 1..(2 * n - 1) |-> IF i % 2 = 1 THEN "a" ELSE " "]

\* what tokenize returns for longText(n)
longTokens(n) == [i \in 1..n |-> <<"a">>]

(***************************************************************************)
(* encode applied to one text, in its two steps: tokenize, then the ids,   *)
(* the masks and the padding.  For the long texts the first step is taken  *)
(* as done.                                                                *)
(***************************************************************************)
InitEncode ==
  /\ model = newSimpleBertModel
  /\ \/ /\ input \in Texts
        /\ op = "none"
        /\ out = NoResult
     \/ \E n \in LongCounts :
          /\ input = longText(n)
          /\ op = "tokenize"
          /\ out = [tokens |-> longTokens(n)]

Tokenize ==
  /\ op = "none"
  /\ op' = "tokenize"
  /\ out' = [tokens |-> BertTokenizer_tokenize(input)]
  /\ UNCHANGED <<input, model>>

Encode ==
  /\ op = "tokenize"
  /\ op' = "encode"
  /\ out' = [tokens |-> out.tokens, encoded |-> encodeTokens(out.tokens)]
  /\ UNCHANGED <<input, model>>

NextEncode ==
  \/ Tokenize
  \/ Encode

SpecEncode == InitEncode /\ [][NextEncode]_vars

(***************************************************************************)
(* The while loop of tokenize on one word, one iteration at a time:        *)
(* remaining, the tokens pushed for the word, and the iterations made.     *)
(***************************************************************************)
Words == UNION {{w \in setOf(normalizedWords(t)) : w # <<>>} : t \in Texts}

InitSubword ==
  /\ model = newSimpleBertModel
  /\ input \in Words
  /\ op = "while"
  /\ out = [remaining |-> input, tokens |-> <<>>, iterations |-> 0]

\* while (remaining.length > 0): push a subword and drop it from remaining
SubwordStep ==
  /\ op = "while"
  /\ Len(out.remaining) > 0
  /\ out' = [remaining |-> SubSeq(out.remaining, subwordLength(out.remaining) + 1,
                                  Len(out.remaining)),
             tokens |-> Append(out.tokens,
                               SubSeq(out.remaining, 1, subwordLength(out.remaining))),
             iterations |-> out.iterations + 1]
  /\ UNCHANGED <<input, op, model>>

\* the loop condition fails: the word is consumed
SubwordDone ==
  /\ op = "while"
  /\ Len(out.remaining) = 0
  /\ op' = "done"
  /\ UNCHANGED <<input, out, model>>

NextSubword ==
  \/ SubwordStep
  \/ SubwordDone

SpecSubword == InitSubword /\ [][NextSubword]_vars

(***************************************************************************)
(* The text functions applied to one input text.                           *)
(***************************************************************************)
InitText ==
  /\ input \in Texts
  /\ op = "none"
  /\ out = NoResult
  /\ model = newSimpleBertModel

AnalyzeSentiment ==
  /\ op = "none"
  /\ op' = "analyzeSentiment"
  /\ out' = analyzeSentiment(input)
  /\ UNCHANGED <<input, model>>

\* preprocessText applied to its own output
PreprocessText ==
  /\ op = "none"
  /\ op' = "preprocessText"
  /\ out' = [once |-> preprocessText(input),
             twice |-> preprocessText(preprocessText(input))]
  /\ UNCHANGED <<input, model>>

Predict ==
  /\ op = "none"
  /\ op' = "predict"
  /\ out' = predict(input)
  /\ UNCHANGED <<input, model>>

AdvancedPreprocess ==
  /\ op = "none"
  /\ op' = "advancedPreprocess"
  /\ out' = advancedPreprocess(input)
  /\ UNCHANGED <<input, model>>

NextText ==
  \/ AnalyzeSentiment
  \/ PreprocessText
  \/ Predict
  \/ AdvancedPreprocess

SpecText == InitText /\ [][NextText]_vars

(***************************************************************************)
(* Aggregation: aggregateResults, calculateDistribution and the dashboard  *)
(* functions generateDashboardMetrics, generateSentimentDistributionChart  *)
(* and calculateSentimentMetrics.                                          *)
(***************************************************************************)
\* records.filter(r => r.label === label).length, keeping the records that
\* do not carry the label
countLabelNegated(records, label) ==
  Cardinality({i \in 1..Len(records) : records[i].label # label})

\* records.filter(r => r.label === label).length
countLabel(records, label) ==
  Cardinality({i \in 1..Len(records) : records[i].label = label})

\* (count / total) * 100 without the factor 100
percentageOfNoScale(count, total) == jsDiv(count, total)

\* (count / total) * 100
percentageOf(count, total) == mulInt(jsDiv(count, total), 100)

\* x / k for a number x and an integer k >= 0
divInt(x, k) ==
  IF x.d = 0 THEN x
  ELSE IF k = 0 THEN [n |-> sign(x.n), d |-> 0]
  ELSE [n |-> x.n, d |-> x.d * k]

RECURSIVE sumNum(_)
sumNum(xs) == IF xs = <<>> THEN Zero ELSE numAdd(Head(xs), sumNum(Tail(xs)))

sumScores(records) == sumSeq([i \in 1..Len(records) |-> records[i].score])

sumConfidences(records) == sumNum([i \in 1..Len(records) |-> records[i].confidence])

aggregateResults(results) ==
  LET total == Len(results)
      positive == countLabel(results, "Positive")
      negative == countLabel(results, "Negative")
      neutral == countLabel(results, "Neutral")
  IN [total |-> total,
      positive |-> positive,
      negative |-> negative,
      neutral |-> neutral,
      positivePercentage |-> percentageOf(positive, total),
      negativePercentage |-> percentageOf(negative, total),
      neutralPercentage |-> percentageOf(neutral, total),
      avgScore |-> jsDiv(sumScores(results), total),
      avgConfidence |-> divInt(sumConfidences(results), total)]

calculateDistribution(analyses) ==
  LET positive == Cardinality({i \in 1..Len(analyses) : analyses[i].label = "Positive"})
      negative == Cardinality({i \in 1..Len(analyses) : analyses[i].label = "Negative"})
      neutral == Cardinality({i \in 1..Len(analyses) :
                   analyses[i].label \notin {"Positive", "Negative"}})
      total == Len(analyses)
  IN [positive |-> positive,
      negative |-> negative,
      neutral |-> neutral,
      positivePercentage |-> percentageOf(positive, total),
      negativePercentage |-> percentageOf(negative, total),
      neutralPercentage |-> percentageOf(neutral, total)]

\* the distinct elements of a sequence in first-seen order: the key order of
\* a Map filled by scanning the sequence
distinctInOrder(xs) ==
  LET firsts == {i \in 1..Len(xs) : \A j \in 1..(i - 1) : xs[j] # xs[i]}
      nth(r) == CHOOSE i \in firsts : Cardinality({j \in firsts : j < i}) = r - 1
  IN [r \in 1..Cardinality(firsts) |-> xs[nth(r)]]

occurrences(xs, x) == Cardinality({i \in 1..Len(xs) : xs[i] = x})

\* the entries left in the order of the Map, without the sort
sortByFrequencyDescNoSort(entries) == entries

\* entries.sort((a, b) => b.frequency - a.frequency): a stable sort
sortByFrequencyDesc(entries) ==
  LET n == Len(entries)
      rank(i) == Cardinality({j \in 1..n : entries[j].frequency > entries[i].frequency})
                 + Cardinality({j \in 1..(i - 1) : entries[j].frequency = entries[i].frequency})
                 + 1
  IN [r \in 1..n |-> entries[CHOOSE i \in 1..n : rank(i) = r]]

\* array.slice(0, limit)
sliceTo(xs, limit) == SubSeq(xs, 1, minOf(Len(xs), limit))

toLowerLabel(label) ==
  CASE label = "Positive" -> "positive"
    [] label = "Negative" -> "negative"
    [] label = "Neutral" -> "neutral"
    [] OTHER -> label

extractTopWords(reviews, type, limit) ==
  LET words == concat([i \in 1..Len(reviews) |->
                         IF type = "positive" THEN reviews[i].positive
                         ELSE reviews[i].negative])
      keys == distinctInOrder(words)
      entries == [r \in 1..Len(keys) |->
                    [word |-> keys[r],
                     frequency |-> occurrences(words, keys[r]),
                     sentiment |-> type]]
  IN sliceTo(sortByFrequencyDesc(entries), limit)

\* the length test of extractWordCloud letting every token through
isLongTokenAnyLength(t) == Len(t) >= 0

isLongToken(t) == Len(t) > 2

extractWordCloud(reviews, limit) ==
  LET tagged == concat([i \in 1..Len(reviews) |->
                  LET kept == SelectSeq(reviews[i].tokens, isLongToken)
                  IN [j \in 1..Len(kept) |->
                        [token |-> kept[j], sentiment |-> toLowerLabel(reviews[i].label)]]])
      tokens == [i \in 1..Len(tagged) |-> tagged[i].token]
      keys == distinctInOrder(tokens)
      lastOf(t) == CHOOSE i \in 1..Len(tagged) :
                     tagged[i].token = t /\ \A j \in (i + 1)..Len(tagged) : tagged[j].token # t
      entries == [r \in 1..Len(keys) |->
                    [word |-> keys[r],
                     frequency |-> occurrences(tokens, keys[r]),
                     sentiment |-> tagged[lastOf(keys[r])].sentiment]]
  IN sliceTo(sortByFrequencyDesc(entries), limit)

\* the whole timestamp taken as the date
datePortionWholeTimestamp(timestamp) == timestamp

\* timestamp.split('T')[0]
datePortion(timestamp) == SubSeq(timestamp, 1, firstIn(timestamp, {"T"}, 1) - 1)

\* the collation rank of the characters of a date
dateCharRank(c) ==
  CASE c = "-" -> 0
    [] c = "0" -> 1 [] c = "1" -> 2 [] c = "2" -> 3 [] c = "3" -> 4
    [] c = "4" -> 5 [] c = "5" -> 6 [] c = "6" -> 7 [] c = "7" -> 8
    [] c = "8" -> 9 [] c = "9" -> 10
    [] OTHER -> 11

\* a.localeCompare(b) < 0 for two date strings
dateBefore(a, b) ==
  \E i \in 1..minOf(Len(a), Len(b)) + 1 :
    /\ \A j \in 1..(i - 1) : a[j] = b[j]
    /\ IF i > Len(a) THEN i <= Len(b)
       ELSE i <= Len(b) /\ dateCharRank(a[i]) < dateCharRank(b[i])

generateTrendData(reviews) ==
  LET dates == distinctInOrder([i \in 1..Len(reviews) |-> datePortion(reviews[i].timestamp)])
      isOn(date) == LET on(r) == datePortion(r.timestamp) = date IN SelectSeq(reviews, on)
      point(date) ==
        LET group == isOn(date)
        IN [timestamp |-> date,
            positiveCount |-> countLabel(group, "Positive"),
            negativeCount |-> countLabel(group, "Negative"),
            neutralCount |-> countLabel(group, "Neutral"),
            averageScore |-> jsDiv(sumScores(group), Len(group))]
      n == Len(dates)
      rank(i) == Cardinality({j \in 1..n : dateBefore(dates[j], dates[i])}) + 1
  IN [r \in 1..n |-> point(dates[CHOOSE i \in 1..n : rank(i) = r])]

generateDashboardMetrics(reviews) ==
  [totalReviews |-> Len(reviews),
   positiveCount |-> countLabel(reviews, "Positive"),
   negativeCount |-> countLabel(reviews, "Negative"),
   neutralCount |-> countLabel(reviews, "Neutral"),
   averageSentimentScore |-> IF Len(reviews) > 0
                             THEN jsDiv(sumScores(reviews), Len(reviews)) ELSE Zero,
   averageConfidence |-> IF Len(reviews) > 0
                         THEN divInt(sumConfidences(reviews), Len(reviews)) ELSE Zero,
   topPositiveWords |-> extractTopWords(reviews, "positive", 10),
   topNegativeWords |-> extractTopWords(reviews, "negative", 10),
   sentimentTrend |-> generateTrendData(reviews),
   wordCloud |-> extractWordCloud(reviews, 20)]

generateSentimentDistributionChart(metrics) ==
  LET total == IF metrics.totalReviews # 0 THEN metrics.totalReviews ELSE 1
  IN [labels |-> <<"Positive", "Negative", "Neutral">>,
      data |-> <<percentageOf(metrics.positiveCount, total),
                 percentageOf(metrics.negativeCount, total),
                 percentageOf(metrics.neutralCount, total)>>]

\* the scores left in the order of the records
sortAscendingNoSort(scores) == scores

\* [...scores].sort((a, b) => a - b)
sortAscending(scores) ==
  LET n == Len(scores)
      rank(i) == Cardinality({j \in 1..n : scores[j] < scores[i]})
                 + Cardinality({j \in 1..(i - 1) : scores[j] = scores[i]}) + 1
  IN [r \in 1..n |-> scores[CHOOSE i \in 1..n : rank(i) = r]]

\* stdDeviation is Math.sqrt(variance), kept as [sqrtOf |-> variance]
calculateSentimentMetrics(reviews) ==
  IF Len(reviews) = 0
  THEN [positivePercentage |-> Zero,
        negativePercentage |-> Zero,
        neutralPercentage |-> Zero,
        avgScore |-> Zero,
        avgConfidence |-> Zero,
        medianScore |-> Zero,
        stdDeviation |-> [sqrtOf |-> Zero]]
  ELSE LET total == Len(reviews)
           positive == countLabel(reviews, "Positive")
           negative == countLabel(reviews, "Negative")
           neutral == countLabel(reviews, "Neutral")
           scores == [i \in 1..total |-> reviews[i].score]
           sum == sumSeq(scores)
           sortedScores == sortAscending(scores)
           medianScore == IF total % 2 = 0
                          THEN jsDiv(sortedScores[total \div 2] + sortedScores[(total \div 2) + 1], 2)
                          ELSE Num(sortedScores[(total \div 2) + 1])
           \* sum of (score - sum/total)^2, over total: squares over total^3
           squares == sumSeq([i \in 1..total |->
                                (scores[i] * total - sum) * (scores[i] * total - sum)])
           variance == jsDiv(squares, total * total * total)
       IN [positivePercentage |-> percentageOf(positive, total),
           negativePercentage |-> percentageOf(negative, total),
           neutralPercentage |-> percentageOf(neutral, total),
           avgScore |-> jsDiv(sum, total),
           avgConfidence |-> divInt(sumConfidences(reviews), total),
           medianScore |-> medianScore,
           stdDeviation |-> [sqrtOf |-> variance]]

(***************************************************************************)
(* The score histogram.  A bin edge minScore + (range / binCount) * i is   *)
(* kept as the exact fraction; for the integer scores of the records the   *)
(* comparisons s >= min and s <= max of the floating-point edges give the  *)
(* same answers.                                                           *)
(***************************************************************************)
\* the binCount generateSentimentScoreHistogram passes
histogramBinCount == 10

\* Math.min(...scores)
minScoreOf(scores) == CHOOSE s \in setOf(scores) : \A t \in setOf(scores) : s <= t

\* Math.max(...scores)
maxScoreOf(scores) == CHOOSE s \in setOf(scores) : \A t \in setOf(scores) : t <= s

\* maxScore - minScore, without the || 1
histogramRangeNoFallback(minScore, maxScore) == maxScore - minScore

\* maxScore - minScore || 1
histogramRange(minScore, maxScore) ==
  IF maxScore - minScore # 0 THEN maxScore - minScore ELSE 1

\* minScore + (range / binCount) * i
binEdge(minScore, range, binCount, i) ==
  [n |-> minScore * binCount + range * i, d |-> binCount]

\* scores.filter(s => s >= min && s < max).length
countInBinHalfOpen(scores, min, max) ==
  Cardinality({j \in 1..Len(scores) :
                 ~numLt(Num(scores[j]), min) /\ numLt(Num(scores[j]), max)})

\* scores.filter(s => s >= min && s <= max).length
countInBin(scores, min, max) ==
  Cardinality({j \in 1..Len(scores) :
                 ~numLt(Num(scores[j]), min) /\ ~numLt(max, Num(scores[j]))})

\* the bins pushed by the for loop
binsOf(scores, minScore, range, binCount) ==
  [b \in 1..binCount |->
     [min |-> binEdge(minScore, range, binCount, b - 1),
      max |-> binEdge(minScore, range, binCount, b),
      count |-> countInBin(scores, binEdge(minScore, range, binCount, b - 1),
                           binEdge(minScore, range, binCount, b))]]

scoresOfReviews(reviews) == [i \in 1..Len(reviews) |-> reviews[i].score]

createHistogramBins(reviews, binCount) ==
  IF Len(reviews) = 0 THEN <<>>
  ELSE binsOf(scoresOfReviews(reviews),
              minScoreOf(scoresOfReviews(reviews)),
              histogramRange(minScoreOf(scoresOfReviews(reviews)),
                             maxScoreOf(scoresOfReviews(reviews))),
              binCount)

(***************************************************************************)
(* generateKeyInsights, the key_insights of generateReportSummary.         *)
(***************************************************************************)
\* the first if of generateKeyInsights
distributionInsight(positivePercentage, negativePercentage) ==
  IF numLt(Num(60), positivePercentage)
  THEN <<"Predominantly positive sentiment detected in reviews">>
  ELSE IF numLt(Num(60), negativePercentage)
  THEN <<"Predominantly negative sentiment detected in reviews">>
  ELSE <<"Mixed sentiment distribution across reviews">>

\* the second if: Math.sqrt(variance) > 1.5 is variance > 2.25
varianceInsight(stdDeviation) ==
  IF numLt(jsDiv(9, 4), stdDeviation.sqrtOf)
  THEN <<"High variance in sentiment scores indicates diverse opinions">>
  ELSE <<"Consistent sentiment pattern throughout reviews">>

\* the third if with the bounds 85 and 65 taken in
confidenceInsightInclusive(averageConfidence) ==
  IF ~numLt(averageConfidence, Num(85))
  THEN <<"High confidence in sentiment classifications">>
  ELSE IF ~numLt(Num(65), averageConfidence)
  THEN <<"Low confidence scores suggest ambiguous content">>
  ELSE <<>>

\* the third if of generateKeyInsights
confidenceInsight(averageConfidence) ==
  IF numLt(Num(85), averageConfidence)
  THEN <<"High confidence in sentiment classifications">>
  ELSE IF numLt(averageConfidence, Num(65))
  THEN <<"Low confidence scores suggest ambiguous content">>
  ELSE <<>>

generateKeyInsights(metrics, sentimentMetrics) ==
  distributionInsight(sentimentMetrics.positivePercentage,
                      sentimentMetrics.negativePercentage)
  \o varianceInsight(sentimentMetrics.stdDeviation)
  \o confidenceInsight(metrics.averageConfidence)

(***************************************************************************)
(* The record collections: every sequence of at most MaxRecords records of *)
(* the pool, each the analysis of a review with the time it was made.      *)
(***************************************************************************)
MaxRecords == 5

Day1 == <<"2","0","2","4","-","0","1","-","0","9","T","2","3",":","5","9",":","0","0","Z">>

Day2 == <<"2","0","2","4","-","0","1","-","1","0","T","0","0",":","0","0",":","0","0","Z">>

dataPoint(text, timestamp) ==
  LET result == analyzeSentiment(text)
  IN [label |-> result.label,
      score |-> result.score,
      confidence |-> result.confidence,
      tokens |-> result.tokens,
      positive |-> result.positive,
      negative |-> result.negative,
      timestamp |-> timestamp]

RecordPool ==
  << dataPoint(<<"g","o","o","d">>, Day2),
     dataPoint(<<"b","a","d"," ","a">>, Day1),
     dataPoint(<<"a">>, Day2),
     dataPoint(<<"g","o","o","d"," ","g","o","o","d"," ","b","a","d"," ","a">>, Day1) >>

RecordSeqs ==
  UNION {{[i \in 1..k |-> RecordPool[f[i]]] : f \in [1..k -> 1..Len(RecordPool)]} :
           k \in 0..MaxRecords}

InitAgg ==
  /\ input \in RecordSeqs
  /\ op = "none"
  /\ out = NoResult
  /\ model = newSimpleBertModel

AggregateResults ==
  /\ op = "none"
  /\ op' = "aggregateResults"
  /\ out' = aggregateResults(input)
  /\ UNCHANGED <<input, model>>

CalculateDistribution ==
  /\ op = "none"
  /\ op' = "calculateDistribution"
  /\ out' = calculateDistribution(input)
  /\ UNCHANGED <<input, model>>

GenerateDashboardMetrics ==
  /\ op = "none"
  /\ op' = "generateDashboardMetrics"
  /\ out' = generateDashboardMetrics(input)
  /\ UNCHANGED <<input, model>>

GenerateSentimentDistributionChart ==
  /\ op = "none"
  /\ op' = "generateSentimentDistributionChart"
  /\ out' = generateSentimentDistributionChart(generateDashboardMetrics(input))
  /\ UNCHANGED <<input, model>>

CalculateSentimentMetrics ==
  /\ op = "none"
  /\ op' = "calculateSentimentMetrics"
  /\ out' = calculateSentimentMetrics(input)
  /\ UNCHANGED <<input, model>>

\* const bins = createHistogramBins(reviews, 10)
CreateHistogramBins ==
  /\ op = "none"
  /\ op' = "createHistogramBins"
  /\ out' = [bins |-> createHistogramBins(input, histogramBinCount)]
  /\ UNCHANGED <<input, model>>

\* key_insights: generateKeyInsights(metrics, sentimentMetrics), for the
\* metrics of the reviews
GenerateKeyInsights ==
  /\ op = "none"
  /\ op' = "generateKeyInsights"
  /\ out' = [key_insights |-> generateKeyInsights(generateDashboardMetrics(input),
                                                  calculateSentimentMetrics(input))]
  /\ UNCHANGED <<input, model>>

NextAgg ==
  \/ AggregateResults
  \/ GenerateKeyInsights
  \/ CreateHistogramBins
  \/ CalculateDistribution
  \/ GenerateDashboardMetrics
  \/ GenerateSentimentDistributionChart
  \/ CalculateSentimentMetrics

SpecAgg == InitAgg /\ [][NextAgg]_vars

(***************************************************************************)
(* The dashboard over records with many words: more distinct positive      *)
(* words than the 10 kept, more distinct tokens than the 20 kept, and       *)
(* three dates first seen out of order.                                     *)
(***************************************************************************)
MaxDashboardRecords == 3

Day3 == <<"2","0","2","4","-","0","1","-","0","2","T","0","8",":","3","0",":","0","0","Z">>

\* the word made of a letter and the two digits of i
numberedWord(letter, i) ==
  LET digits == <<"0", "1", "2", "3", "4", "5", "6", "7", "8", "9">>
  IN <<letter, digits[(i \div 10) + 1], digits[(i % 10) + 1]>>

numberedWords(letter, from, to) ==
  [i \in 1..(to - from + 1) |-> numberedWord(letter, from + i - 1)]

DashboardPool ==
  << [label |-> "Positive", score |-> 18, confidence |-> Num(100),
      tokens |-> numberedWords("t", 1, 11),
      positive |-> numberedWords("p", 1, 6),
      negative |-> <<>>,
      timestamp |-> Day2],
     [label |-> "Positive", score |-> 15, confidence |-> Num(100),
      tokens |-> numberedWords("t", 12, 22) \o << <<"a", "b">> >>,
      positive |-> numberedWords("p", 7, 12) \o numberedWords("p", 1, 1),
      negative |-> numberedWords("n", 1, 1),
      timestamp |-> Day1],
     [label |-> "Negative", score |-> 0 - 3, confidence |-> Num(75),
      tokens |-> numberedWords("t", 22, 22) \o numberedWords("t", 22, 22)
                 \o numberedWords("t", 1, 1) \o << <<"a", "b">> >>,
      positive |-> numberedWords("p", 12, 12) \o numberedWords("p", 12, 12),
      negative |-> numberedWords("n", 2, 2) \o numberedWords("n", 1, 1)
                   \o numberedWords("n", 2, 2),
      timestamp |-> Day3],
     [label |-> "Neutral", score |-> 0, confidence |-> Zero,
      tokens |-> << <<"a">> >>,
      positive |-> <<>>,
      negative |-> <<>>,
      timestamp |-> Day1] >>

DashboardSeqs ==
  UNION {{[i \in 1..k |-> DashboardPool[f[i]]] : f \in [1..k -> 1..Len(DashboardPool)]} :
           k \in 0..MaxDashboardRecords}

InitDashboard ==
  /\ input \in DashboardSeqs
  /\ op = "none"
  /\ out = NoResult
  /\ model = newSimpleBertModel

NextDashboard == GenerateDashboardMetrics

SpecDashboard == InitDashboard /\ [][NextDashboard]_vars

(***************************************************************************)
(* The HTTP routes of createRouter.  A field of a request body is a JSON   *)
(* value [type, val]; a response is [status, error, result].  The          *)
(* timestamp of a response is the wall clock and is left out.              *)
(***************************************************************************)
MaxReviews == 2

Undefined == [type |-> "undefined", val |-> 0]

Null == [type |-> "null", val |-> 0]

StringValue(chars) == [type |-> "string", val |-> chars]

NumberValue(i) == [type |-> "number", val |-> i]

BooleanValue(b) == [type |-> "boolean", val |-> b]

ArrayValue(items) == [type |-> "array", val |-> items]

\* !v
isFalsy(v) ==
  \/ v.type \in {"undefined", "null"}
  \/ v.type = "string" /\ v.val = <<>>
  \/ v.type = "number" /\ v.val = 0
  \/ v.type = "boolean" /\ v.val = FALSE

\* typeof v === 'string'
isString(v) == v.type = "string"

\* Array.isArray(v)
isArray(v) == v.type = "array"

\* text.toLowerCase() raises a TypeError for a value that is not a string:
\* the first step of preprocessText and of cleanText
raisesTypeError(v) == ~isString(v)

calculateSimilarity(text1, text2) ==
  LET words1 == setOf(splitRuns(toLowerCase(text1), SpaceChars))
      words2 == setOf(splitRuns(toLowerCase(text2), SpaceChars))
      intersection == {x \in words1 : x \in words2}
      union == words1 \cup words2
  IN IF Cardinality(union) = 0 THEN Zero
     ELSE jsDiv(Cardinality(intersection), Cardinality(union))

badRequest(message) == [status |-> 400, error |-> message, result |-> NoResult]

serverError(message) == [status |-> 500, error |-> message, result |-> NoResult]

ok(result) == [status |-> 200, error |-> "", result |-> result]

postAnalyze(body) ==
  IF isFalsy(body.text) \/ ~isString(body.text)
  THEN badRequest("Invalid input: text field is required and must be a string")
  ELSE LET text == body.text.val
       IN ok([basic_analysis |-> analyzeSentiment(text),
              bert_prediction |-> predict(text),
              advanced_preprocessing |-> IF ~isFalsy(body.useAdvanced)
                                         THEN advancedPreprocess(text) ELSE NoResult,
              text_length |-> Len(text)])

\* the strings of an array of string values
stringsOf(items) == [i \in 1..Len(items) |-> items[i].val]

\* the body of the /batch-analyze response
batchResponse(reviews, basicAnalyses, useAdvanced) ==
  ok([count |-> Len(reviews),
      basic_aggregate |-> aggregateResults(basicAnalyses),
      basic_individual |-> basicAnalyses,
      bert_predictions |-> [i \in 1..Len(reviews) |-> predict(reviews[i])],
      advanced_preprocessing |->
        IF ~isFalsy(useAdvanced)
        THEN [i \in 1..Len(reviews) |-> advancedPreprocess(reviews[i])]
        ELSE NoResult])

postBatchAnalyze(body) ==
  IF ~isArray(body.reviews) \/ Len(body.reviews.val) = 0
  THEN badRequest("Invalid input: reviews must be a non-empty array")
  ELSE IF ~\A i \in 1..Len(body.reviews.val) : isString(body.reviews.val[i])
  THEN badRequest("Invalid input: all reviews must be strings")
  ELSE batchResponse(stringsOf(body.reviews.val),
                     batchAnalyze(stringsOf(body.reviews.val)),
                     body.useAdvanced)

\* the body of the /compare response
comparison(text1, text2, analysis1, analysis2) ==
  ok([text1 |-> [basic |-> analysis1, bert |-> predict(text1)],
      text2 |-> [basic |-> analysis2, bert |-> predict(text2)],
      sentiment_difference |-> analysis1.score - analysis2.score,
      similarity_score |-> calculateSimilarity(text1, text2)])

postCompare(body) ==
  IF isFalsy(body.text1) \/ isFalsy(body.text2)
  THEN badRequest("Both text1 and text2 are required")
  ELSE IF raisesTypeError(body.text1) \/ raisesTypeError(body.text2)
  THEN serverError("Comparison failed")
  ELSE comparison(body.text1.val, body.text2.val,
                  analyzeSentiment(body.text1.val), analyzeSentiment(body.text2.val))

\* the body of the /extract-features response
featuresResponse(preprocessed) ==
  ok([text_analysis |-> preprocessed.features,
      metadata |-> preprocessed.metadata,
      tokens_count |-> Len(preprocessed.tokens),
      lemmatized_count |-> Len(preprocessed.lemmatized),
      unique_tokens |-> Cardinality(setOf(preprocessed.tokens)),
      tokens |-> sliceTo(preprocessed.tokens, 50)])

postExtractFeatures(body) ==
  IF isFalsy(body.text)
  THEN badRequest("Text field is required")
  ELSE IF raisesTypeError(body.text)
  THEN serverError("Feature extraction failed")
  ELSE featuresResponse(advancedPreprocess(body.text.val))

postSentimentDistribution(body) ==
  IF ~isArray(body.reviews) \/ Len(body.reviews.val) = 0
  THEN badRequest("Reviews array is required and must not be empty")
  ELSE IF \E i \in 1..Len(body.reviews.val) : raisesTypeError(body.reviews.val[i])
  THEN serverError("Distribution calculation failed")
  ELSE ok([distribution |-> calculateDistribution(batchAnalyze(stringsOf(body.reviews.val))),
           total_reviews |-> Len(body.reviews.val)])

(***************************************************************************)
(* The requests: every body whose fields are drawn from the values below.  *)
(***************************************************************************)
\* the model instance after a handler that, when it succeeds, has called
\* analyzeWithBert on each of the texts
modelAfterRoute(m, response, texts) ==
  IF response.status = 200 THEN modelAfterPredicts(m, texts) ELSE m

RouteTexts ==
  { <<"g","o","o","d">>, <<"b","a","d"," ","a">>, <<" ">>, <<"G","o","o","d","!">> }

TextValues ==
  {Undefined, Null, StringValue(<<>>), NumberValue(0), NumberValue(5),
   BooleanValue(TRUE), ArrayValue(<<StringValue(<<"g","o","o","d">>)>>)}
  \cup {StringValue(t) : t \in RouteTexts}

ReviewItems ==
  {StringValue(<<"g","o","o","d">>), StringValue(<<"b","a","d"," ","a">>),
   StringValue(<<>>), NumberValue(5)}

ReviewsValues ==
  {Undefined, StringValue(<<"g","o","o","d">>)}
  \cup {ArrayValue(items) : items \in UNION {[1..k -> ReviewItems] : k \in 0..MaxReviews}}

FlagValues == {Undefined, BooleanValue(TRUE)}

NoRequest == [none |-> TRUE]

InitRouter ==
  /\ input = NoRequest
  /\ op = "idle"
  /\ out = NoResult
  /\ model = newSimpleBertModel

PostAnalyze ==
  /\ op = "idle"
  /\ \E text \in TextValues, useAdvanced \in FlagValues :
       LET body == [text |-> text, useAdvanced |-> useAdvanced]
       IN /\ input' = body
          /\ out' = postAnalyze(body)
          /\ model' = modelAfterRoute(model, out', <<text.val>>)
  /\ op' = "/analyze"

PostBatchAnalyze ==
  /\ op = "idle"
  /\ \E reviews \in ReviewsValues, useAdvanced \in FlagValues :
       LET body == [reviews |-> reviews, useAdvanced |-> useAdvanced]
       IN /\ input' = body
          /\ out' = postBatchAnalyze(body)
          /\ model' = modelAfterRoute(model, out', stringsOf(reviews.val))
  /\ op' = "/batch-analyze"

PostCompare ==
  /\ op = "idle"
  /\ \E text1 \in TextValues, text2 \in TextValues :
       LET body == [text1 |-> text1, text2 |-> text2]
       IN /\ input' = body
          /\ out' = postCompare(body)
          /\ model' = modelAfterRoute(model, out', <<text1.val, text2.val>>)
  /\ op' = "/compare"

PostExtractFeatures ==
  /\ op = "idle"
  /\ \E text \in TextValues :
       LET body == [text |-> text]
       IN /\ input' = body
          /\ out' = postExtractFeatures(body)
  /\ op' = "/extract-features"
  /\ UNCHANGED model

PostSentimentDistribution ==
  /\ op = "idle"
  /\ \E reviews \in ReviewsValues :
       LET body == [reviews |-> reviews]
       IN /\ input' = body
          /\ out' = postSentimentDistribution(body)
  /\ op' = "/sentiment-distribution"
  /\ UNCHANGED model

\* the response has been sent; the router waits for the next request
ResponseSent ==
  /\ op # "idle"
  /\ op' = "idle"
  /\ input' = NoRequest
  /\ out' = NoResult
  /\ UNCHANGED model

NextRouter ==
  \/ PostAnalyze
  \/ PostBatchAnalyze
  \/ PostCompare
  \/ PostExtractFeatures
  \/ PostSentimentDistribution
  \/ ResponseSent

SpecRouter == InitRouter /\ [][NextRouter]_vars

(***************************************************************************)
(* The single-review UI: App (activeTab, result, loading, the timers set   *)
(* by handleAnalyze and not yet fired) and SentimentInput (text).  input   *)
(* is the text of the textarea, out the state of App, op the last event.   *)
(***************************************************************************)
MaxTimers == 2

sampleReviews ==
  <<
     <<"T", "h", "i", "s", " ", "p", "r", "o", "d", "u", "c", "t", " ",
       "i", "s", " ", "a", "b", "s", "o", "l", "u", "t", "e", "l", "y",
       " ", "a", "m", "a", "z", "i", "n", "g", "!", " ", "B", "e", "s",
       "t", " ", "p", "u", "r", "c", "h", "a", "s", "e", " ", "I", "'",
       "v", "e", " ", "e", "v", "e", "r", " ", "m", "a", "d", "e", ".",
       " ", "H", "i", "g", "h", "l", "y", " ", "r", "e", "c", "o", "m",
       "m", "e", "n", "d", "!">>,
     <<"T", "e", "r", "r", "i", "b", "l", "e", " ", "q", "u", "a", "l",
       "i", "t", "y", ".", " ", "B", "r", "o", "k", "e", " ", "a", "f",
       "t", "e", "r", " ", "o", "n", "e", " ", "d", "a", "y", ".", " ",
       "C", "o", "m", "p", "l", "e", "t", "e", " ", "w", "a", "s", "t",
       "e", " ", "o", "f", " ", "m", "o", "n", "e", "y", ".", " ", "V",
       "e", "r", "y", " ", "d", "i", "s", "a", "p", "p", "o", "i", "n",
       "t", "e", "d", ".">>,
     <<"T", "h", "e", " ", "p", "r", "o", "d", "u", "c", "t", " ", "a",
       "r", "r", "i", "v", "e", "d", " ", "o", "n", " ", "t", "i", "m",
       "e", " ", "a", "n", "d", " ", "w", "o", "r", "k", "s", " ", "a",
       "s", " ", "e", "x", "p", "e", "c", "t", "e", "d", ".", " ", "N",
       "o", "t", "h", "i", "n", "g", " ", "s", "p", "e", "c", "i", "a",
       "l", " ", "b", "u", "t", " ", "d", "o", "e", "s", " ", "t", "h",
       "e", " ", "j", "o", "b", ".">>
  >>

\* the values typed into the textarea
TypedTexts == {<<>>, <<" ">>, <<"g", "o", "o", "d">>, <<"b", "a", "d", " ", "a">>}

\* disabled={!text.trim() || loading} of the submit button, negated, with
\* the loading test left out
submitEnabledWhileLoading(text, loading) == trim(text) # <<>>

\* disabled={!text.trim() || loading} of the submit button, negated
submitEnabled(text, loading) == trim(text) # <<>> /\ ~loading

\* handleAnalyze: setLoading(true) and a timer holding the text
handleAnalyze(app, text) ==
  [app EXCEPT !.loading = TRUE, !.timers = Append(@, text)]

\* the callback of the timer: setResult(analyzeSentiment(text)) and
\* setLoading(false)
timerFired(app) ==
  [app EXCEPT !.result = analyzeSentiment(Head(app.timers)),
              !.loading = FALSE,
              !.timers = Tail(@)]

InitUi ==
  /\ input = <<>>
  /\ op = "mount"
  /\ out = [activeTab |-> "single", result |-> NoResult, loading |-> FALSE, timers |-> <<>>]
  /\ model = newSimpleBertModel

\* onChange of the textarea, disabled while loading
TypeText ==
  /\ out.activeTab = "single"
  /\ ~out.loading
  /\ \E value \in TypedTexts : input' = value
  /\ op' = "type"
  /\ UNCHANGED <<out, model>>

\* onClick of a sample button, disabled while loading
SelectSample ==
  /\ out.activeTab = "single"
  /\ ~out.loading
  /\ \E index \in 1..Len(sampleReviews) : input' = sampleReviews[index]
  /\ op' = "sample"
  /\ UNCHANGED <<out, model>>

\* the submit button, when enabled: handleSubmit calls onAnalyze(text) when
\* text.trim() is not empty
SubmitForm ==
  /\ out.activeTab = "single"
  /\ submitEnabled(input, out.loading)
  /\ Len(out.timers) < MaxTimers
  /\ trim(input) # <<>>
  /\ out' = handleAnalyze(out, input)
  /\ op' = "submit"
  /\ UNCHANGED <<input, model>>

\* onClick of a tab button: leaving the single tab unmounts SentimentInput,
\* whose text is '' again when it is mounted
SwitchTab ==
  /\ \E tab \in {"single", "batch"} :
       /\ out' = [out EXCEPT !.activeTab = tab]
       /\ input' = IF tab = out.activeTab THEN input ELSE <<>>
  /\ op' = "tab"
  /\ UNCHANGED model

\* the 500 ms timer of handleAnalyze fires
TimerFires ==
  /\ Len(out.timers) > 0
  /\ out' = timerFired(out)
  /\ op' = "timer"
  /\ UNCHANGED <<input, model>>

NextUi ==
  \/ TypeText
  \/ SelectSample
  \/ SubmitForm
  \/ SwitchTab
  \/ TimerFires

SpecUi == InitUi /\ [][NextUi]_vars

\* C1: the label of analyzeSentiment is Positive iff score > 0, Negative iff
\* score < 0, Neutral iff score = 0, and no other label is produced.
LabelIsSignOfScore ==
  op = "analyzeSentiment" =>
    /\ out.label \in Labels
    /\ (out.label = "Positive") <=> (out.score > 0)
    /\ (out.label = "Negative") <=> (out.score < 0)
    /\ (out.label = "Neutral") <=> (out.score = 0)

\* a text with a negative total score has been analysed
LabelIsSignOfScoreWitness ==
  op = "analyzeSentiment" /\ out.score < 0 /\ out.label = "Negative"

\* a text of whitespace only, the empty text included
isBlank(text) == trim(text) = <<>>

isZero(x) == numEq(x, Zero)

\* 0 <= x <= 1
isProbability(x) == isFinite(x) /\ ~numLt(x, Zero) /\ ~numLt(Num(1), x)

\* C2: the three probabilities of predict are each in [0,1] and sum to 1.
ProbabilitiesSumToOne ==
  op = "predict" =>
    /\ isProbability(out.positive)
    /\ isProbability(out.negative)
    /\ isProbability(out.neutral)
    /\ numEq(numAdd(numAdd(out.positive, out.negative), out.neutral), Num(1))

\* a prediction in which all three classes have a probability above 0 and
\* the negative class has the largest
ProbabilitiesSumToOneWitness ==
  /\ op = "predict"
  /\ out.predicted_class = "negative"
  /\ out.positive.n > 0 /\ out.neutral.n > 0

\* C3: every aggregation entry point, given an empty collection, returns
\* counts, percentages and averages that are all exactly 0.
EmptyAggregationAllZero ==
  input = <<>> =>
    /\ op = "aggregateResults" =>
         /\ out.total = 0 /\ out.positive = 0 /\ out.negative = 0 /\ out.neutral = 0
         /\ isZero(out.positivePercentage)
         /\ isZero(out.negativePercentage)
         /\ isZero(out.neutralPercentage)
         /\ isZero(out.avgScore)
         /\ isZero(out.avgConfidence)
    /\ op = "calculateSentimentMetrics" =>
         /\ isZero(out.positivePercentage)
         /\ isZero(out.negativePercentage)
         /\ isZero(out.neutralPercentage)
         /\ isZero(out.avgScore)
         /\ isZero(out.avgConfidence)
         /\ isZero(out.medianScore)
         /\ isZero(out.stdDeviation.sqrtOf)
    /\ op = "generateDashboardMetrics" =>
         /\ out.totalReviews = 0
         /\ out.positiveCount = 0 /\ out.negativeCount = 0 /\ out.neutralCount = 0
         /\ isZero(out.averageSentimentScore)
         /\ isZero(out.averageConfidence)
    /\ op = "generateSentimentDistributionChart" =>
         \A i \in 1..3 : isZero(out.data[i])

labelCount(label) == Cardinality({i \in 1..Len(input) : input[i].label = label})

PercentagesAreCountOverTotal ==
  (op \in {"aggregateResults", "calculateSentimentMetrics"} /\ input # <<>>) =>
    /\ op = "aggregateResults" =>
         /\ out.total = Len(input)
         /\ out.positive = labelCount("Positive")
         /\ out.negative = labelCount("Negative")
         /\ out.neutral = labelCount("Neutral")
    /\ numEq(out.positivePercentage, jsDiv(labelCount("Positive") * 100, Len(input)))
    /\ numEq(out.negativePercentage, jsDiv(labelCount("Negative") * 100, Len(input)))
    /\ numEq(out.neutralPercentage, jsDiv(labelCount("Neutral") * 100, Len(input)))
    /\ (/\ Len(input) = 5
        /\ labelCount("Positive") = 3
        /\ labelCount("Negative") = 1
        /\ labelCount("Neutral") = 1) =>
         /\ numEq(out.positivePercentage, Num(60))
         /\ numEq(out.negativePercentage, Num(20))
         /\ numEq(out.neutralPercentage, Num(20))

\* five records, 3 Positive, 1 Negative and 1 Neutral, have been aggregated
PercentagesAreCountOverTotalWitness ==
  /\ op = "aggregateResults"
  /\ Len(input) = 5
  /\ labelCount("Positive") = 3
  /\ labelCount("Negative") = 1
  /\ labelCount("Neutral") = 1
  /\ numEq(out.positivePercentage, Num(60))

\* C6: preprocessText(preprocessText(t)) = preprocessText(t).
NormalizeIdempotent ==
  op = "preprocessText" => out.twice = out.once

\* a text that normalisation changes has been normalised twice
NormalizeIdempotentWitness ==
  op = "preprocessText" /\ out.once # input /\ out.once # <<>>

\* C7: for the empty and for whitespace-only text, analyzeSentiment reports
\* wordCount = 0, avgWordLength = 0, uniqueWords = 0, lexicalDiversity = 0.
BlankTextBasicFeaturesZero ==
  (op = "analyzeSentiment" /\ isBlank(input)) =>
    /\ out.features.wordCount = 0
    /\ isZero(out.features.avgWordLength)
    /\ out.features.uniqueWords = 0
    /\ isZero(out.features.lexicalDiversity)

\* C8: for the empty and for whitespace-only text, advancedPreprocess returns
\* no tokens, no lemmas, every numeric feature 0 and every metadata score 0.
BlankTextAdvancedAllZero ==
  (op = "advancedPreprocess" /\ isBlank(input)) =>
    /\ out.tokens = <<>>
    /\ out.lemmatized = <<>>
    /\ out.features.wordCount = 0
    /\ out.features.sentenceCount = 0
    /\ isZero(out.features.avgWordLength)
    /\ isZero(out.features.avgSentenceLength)
    /\ out.features.uniqueWords = 0
    /\ isZero(out.features.lexicalDiversity)
    /\ out.features.specialCharCount = 0
    /\ isZero(out.features.uppercaseRatio)
    /\ out.features.exclamationCount = 0
    /\ out.features.questionCount = 0
    /\ isZero(out.metadata.readabilityScore)
    /\ isZero(out.metadata.emotionalIntensity)
    /\ isZero(out.metadata.subjectivity)

\* the empty text has been preprocessed
BlankTextAdvancedAllZeroWitness ==
  op = "advancedPreprocess" /\ input = <<>> /\ out.cleaned = <<>>

\* C9: the three raw logits of predict are finite for every text; the neutral
\* logit log(tokenCount / 10) is never -Infinity or NaN.
LogitsFinite ==
  op = "predict" => \A i \in 1..3 : logitIsFinite(out.raw_logits[i])

\* the empty text has been classified: its neutral logit is log(2 / 10)
LogitsFiniteWitness ==
  op = "predict" /\ input = <<>> /\ out.raw_logits[3] = [t |-> 0, k |-> 2]

\* a required text field that is missing, empty or not a string
isInvalidText(v) == ~isString(v) \/ v.val = <<>>

\* a required reviews array that is missing, empty or holds a non-string
isInvalidReviews(v) ==
  \/ ~isArray(v)
  \/ Len(v.val) = 0
  \/ \E i \in 1..Len(v.val) : ~isString(v.val[i])

isInvalidRequest ==
  CASE op \in {"/analyze", "/extract-features"} -> isInvalidText(input.text)
    [] op = "/compare" -> isInvalidText(input.text1) \/ isInvalidText(input.text2)
    [] op \in {"/batch-analyze", "/sentiment-distribution"} -> isInvalidReviews(input.reviews)
    [] OTHER -> FALSE

\* C10: every POST route answers an invalid request with a 400 error, with
\* no analysis result and never with a 500.
InvalidInputAnswered400 ==
  isInvalidRequest => (out.status = 400 /\ out.result = NoResult)

\* C11: batch analysis keeps the order, one result per input: in the
\* /batch-analyze response count is reviews.length, basic_individual (the
\* output of batchAnalyze) and bert_predictions have that length, and their
\* i-th entries are analyzeSentiment(reviews[i]) and predict(reviews[i]).
BatchKeepsOrder ==
  (op = "/batch-analyze" /\ out.status = 200) =>
    LET reviews == input.reviews.val
        result == out.result
    IN /\ result.count = Len(reviews)
       /\ Len(result.basic_individual) = Len(reviews)
       /\ Len(result.bert_predictions) = Len(reviews)
       /\ \A i \in 1..Len(reviews) :
            /\ result.basic_individual[i] = analyzeSentiment(reviews[i].val)
            /\ result.bert_predictions[i] = predict(reviews[i].val)

\* a batch of two reviews with different labels has been analysed
BatchKeepsOrderWitness ==
  /\ op = "/batch-analyze"
  /\ out.status = 200
  /\ Len(input.reviews.val) = 2
  /\ out.result.basic_individual[1].label = "Positive"
  /\ out.result.basic_individual[2].label = "Negative"

\* the set a text splits into at whitespace after lower-casing (the empty
\* string is a member when the text is empty or begins or ends with whitespace)
splitSet(text) == setOf(splitRuns(toLowerCase(text), SpaceChars))

\* C12: the similarity score of /compare is |intersection| / |union| of the
\* two lower-cased whitespace-split word sets, and is 0 when neither text
\* contains any word (both texts empty or whitespace-only).
SimilarityIsJaccard ==
  (op = "/compare" /\ out.status = 200) =>
    LET set1 == splitSet(input.text1.val)
        set2 == splitSet(input.text2.val)
    IN IF (set1 \cup set2) \ {<<>>} = {}
       THEN isZero(out.result.similarity_score)
       ELSE numEq(out.result.similarity_score,
                  jsDiv(Cardinality(set1 \cap set2), Cardinality(set1 \cup set2)))

\* C14: the confidence of analyzeSentiment is min(|comparative| x 100, 100),
\* lies in [0, 100], and is 0 whenever the score is 0.
ConfidenceIsCappedComparative ==
  op = "analyzeSentiment" =>
    LET scaled == mulInt(numAbs(out.comparative), 100)
    IN /\ numEq(out.confidence, IF numLt(scaled, Num(100)) THEN scaled ELSE Num(100))
       /\ isFinite(out.confidence)
       /\ ~numLt(out.confidence, Zero)
       /\ ~numLt(Num(100), out.confidence)
       /\ out.score = 0 => isZero(out.confidence)

\* a text whose |comparative| x 100 exceeds 100 has been analysed: the
\* confidence is capped
ConfidenceIsCappedComparativeWitness ==
  /\ op = "analyzeSentiment"
  /\ numLt(Num(100), mulInt(numAbs(out.comparative), 100))
  /\ numEq(out.confidence, Num(100))

usedPositions(tokens) == minOf(Len(tokens), maxLength - 2) + 2

\* C15: encode returns input_ids, attention_mask and token_type_ids of
\* length exactly maxLength; attention_mask is 1 on the class-start, token
\* and separator positions and 0 on every padding position; token_type_ids
\* is 0 everywhere.
EncodeShape ==
  op = "encode" =>
    /\ Len(out.encoded.input_ids) = maxLength
    /\ Len(out.encoded.attention_mask) = maxLength
    /\ Len(out.encoded.token_type_ids) = maxLength
    /\ \A i \in 1..maxLength :
         /\ out.encoded.attention_mask[i] = (IF i <= usedPositions(out.tokens) THEN 1 ELSE 0)
         /\ out.encoded.token_type_ids[i] = 0

\* a text of three tokens has been encoded: five 1s, then 0s
EncodeShapeWitness ==
  /\ op = "encode"
  /\ Len(out.tokens) = 3
  /\ out.encoded.attention_mask[5] = 1
  /\ out.encoded.attention_mask[6] = 0

\* C16: encode keeps the first tokens, at most maxLength - 2 of them and in
\* order, after the class-start id at position 0, puts the separator id
\* right after the last kept token, also when tokens were cut off, and pads
\* with the pad id only the positions left below maxLength.
EncodeKeepsMarkers ==
  op = "encode" =>
    LET kept == minOf(Len(out.tokens), maxLength - 2)
        ids == out.encoded.input_ids
    IN /\ Len(ids) = maxLength
       /\ ids[1] = clsTokenId
       /\ \A i \in 1..kept : ids[i + 1] = getTokenId(out.tokens[i])
       /\ ids[kept + 2] = sepTokenId
       /\ \A i \in (kept + 3)..maxLength : ids[i] = padTokenId

\* a text of more than maxLength - 2 tokens has been encoded: the separator
\* id is in the last position
EncodeKeepsMarkersWitness ==
  /\ op = "encode"
  /\ Len(out.tokens) > maxLength - 2
  /\ out.encoded.input_ids[maxLength] = sepTokenId
  /\ out.encoded.input_ids[maxLength - 1] = getTokenId(<<"a">>)

(***************************************************************************)
(* C17: the subword loop of tokenize.                                      *)
(***************************************************************************)
\* the characters of the word left once the first k tokens were emitted
restAfter(word, tokens, k) ==
  SubSeq(word, sumSeq([j \in 1..k |-> Len(tokens[j])]) + 1, Len(word))

\* a vocabulary member, or a string holding a lowercase letter or a digit
qualifies(m, prefix) ==
  \/ \E j \in 1..Len(m.vocab) : m.vocab[j] = str(prefix)
  \/ \E i \in 1..Len(prefix) : prefix[i] \in LowerSet \cup Digits

\* the lengths up to maxSubwordLength of the prefixes of rest that qualify
qualifyingLengths(m, rest) ==
  {i \in 1..minOf(maxSubwordLength, Len(rest)) : qualifies(m, SubSeq(rest, 1, i))}

\* token is the longest qualifying prefix of rest, or else its first character
isLongestPrefix(m, token, rest) ==
  /\ Len(token) <= Len(rest)
  /\ token = SubSeq(rest, 1, Len(token))
  /\ IF qualifyingLengths(m, rest) = {}
     THEN Len(token) = 1
     ELSE /\ Len(token) \in qualifyingLengths(m, rest)
          /\ \A i \in qualifyingLengths(m, rest) : i <= Len(token)

\* C17: for every word of the normalized text the loop makes at most
\* length(word) iterations and has consumed the word by then; each token
\* emitted is the longest prefix of at most 4 characters of the remaining
\* characters that is a vocabulary member or holds a lowercase letter or a
\* digit, or else the single first character; every token has 1 to 4
\* characters, and the tokens concatenated in order, followed by what
\* remains, are the word (the whole word once the loop has ended).
SubwordLoopSplitsWord ==
  op \in {"while", "done"} =>
    /\ out.iterations = Len(out.tokens)
    /\ out.iterations <= Len(input)
    /\ (out.iterations = Len(input) => out.remaining = <<>>)
    /\ (op = "done" => out.remaining = <<>>)
    /\ \A k \in 1..Len(out.tokens) :
         /\ Len(out.tokens[k]) \in 1..4
         /\ isLongestPrefix(model, out.tokens[k], restAfter(input, out.tokens, k - 1))
    /\ concat(out.tokens) \o out.remaining = input
    /\ (op = "done" => concat(out.tokens) = input)

\* a word split into several tokens, one of the full 4 characters and one
\* emitted as a single character because no prefix qualified
SubwordLoopSplitsWordWitness ==
  /\ op = "done"
  /\ Len(input) > maxSubwordLength
  /\ \E k \in 1..Len(out.tokens) : Len(out.tokens[k]) = maxSubwordLength
  /\ \E k \in 1..Len(out.tokens) :
       /\ out.tokens[k] = <<"_">>
       /\ qualifyingLengths(model, restAfter(input, out.tokens, k - 1)) = {}

(***************************************************************************)
(* C18: the positive and the negative logit.                               *)
(***************************************************************************)
\* the lower-cased whitespace-split words of the text that contain a member
\* of the list as a substring, counted by position
wordsHolding(text, list) ==
  Cardinality({i \in 1..Len(splitRuns(toLowerCase(text), SpaceChars)) :
    \E j \in 1..Len(list) :
      \E from \in 1..Len(splitRuns(toLowerCase(text), SpaceChars)[i]) :
        \E to \in from..Len(splitRuns(toLowerCase(text), SpaceChars)[i]) :
          str(SubSeq(splitRuns(toLowerCase(text), SpaceChars)[i], from, to)) = list[j]})

\* C18: the positive logit is 1.5 x P + 0.3 x E and the negative logit is
\* 1.5 x N + 0.2 x Q, P and N the numbers of lower-cased whitespace-split
\* words that contain a member of the positive and of the negative list, E
\* the number of '!' and Q the number of '?' of the text (logits in tenths:
\* 15 P + 3 E and 15 N + 2 Q).
LogitsCountWordsAndMarks ==
  op = "predict" =>
    /\ out.raw_logits[1].k = 10
    /\ out.raw_logits[1].t
         = 15 * wordsHolding(input, positiveWords) + 3 * occurrences(input, "!")
    /\ out.raw_logits[2].k = 10
    /\ out.raw_logits[2].t
         = 15 * wordsHolding(input, negativeWords) + 2 * occurrences(input, "?")

\* a text of one word that holds a positive and a negative member and a
\* question mark: both logits count the word, the negative one the mark
LogitsCountWordsAndMarksWitness ==
  /\ op = "predict"
  /\ Len(splitRuns(toLowerCase(input), SpaceChars)) = 1
  /\ wordsHolding(input, positiveWords) = 1
  /\ wordsHolding(input, negativeWords) = 1
  /\ occurrences(input, "?") = 1
  /\ out.raw_logits[1].t = 15
  /\ out.raw_logits[2].t = 17

(***************************************************************************)
(* C19: the predicted class and the confidence of a prediction.            *)
(***************************************************************************)
classOrder == <<"positive", "negative", "neutral">>

\* the three probabilities of a prediction, in the order of classOrder
probabilitiesOf(prediction) ==
  <<prediction.positive, prediction.negative, prediction.neutral>>

\* index i holds the largest of the probabilities and no earlier index does
isFirstLargest(probabilities, i) ==
  /\ \A j \in 1..3 : ~numLt(probabilities[i], probabilities[j])
  /\ \A j \in 1..(i - 1) : numLt(probabilities[j], probabilities[i])

\* C19: predicted_class is the class of the largest probability, a tie
\* going to the first of positive, negative, neutral, and confidence is the
\* largest probability times 100.
ClassIsFirstLargest ==
  op = "predict" =>
    \E i \in 1..3 :
      /\ isFirstLargest(probabilitiesOf(out), i)
      /\ out.predicted_class = classOrder[i]
      /\ numEq(out.confidence, mulInt(probabilitiesOf(out)[i], 100))

\* the three probabilities tie and the class is positive
ClassIsFirstLargestWitness ==
  /\ op = "predict"
  /\ numEq(out.positive, out.negative)
  /\ numEq(out.negative, out.neutral)
  /\ out.predicted_class = "positive"
  /\ out.confidence.n * 3 = out.confidence.d * 100

(***************************************************************************)
(* C20: repeated letters in the cleaned text.                              *)
(***************************************************************************)
Amazingggg == <<"a", "m", "a", "z", "i", "n", "g", "g", "g", "g">>

\* C20: the cleaning step of advancedPreprocess collapses a letter repeated
\* 3 or more times in a row down to a single occurrence wherever the run
\* occurs in a word: no letter stands 3 times in a row in the cleaned text,
\* and cleaning "amazingggg" yields "amazing".
CleaningCollapsesLetterRuns ==
  op = "advancedPreprocess" =>
    /\ \A i \in 1..(Len(out.cleaned) - 2) :
         ~ /\ out.cleaned[i] \in LowerSet
           /\ out.cleaned[i + 1] = out.cleaned[i]
           /\ out.cleaned[i + 2] = out.cleaned[i]
    /\ (input = Amazingggg => str(out.cleaned) = "amazing")

(***************************************************************************)
(* C21: the tokens kept by advancedPreprocess.                             *)
(***************************************************************************)
\* C21: for every text, every token of the tokens list returned by
\* advancedPreprocess is not a stop word, whatever its case, and has more
\* than 2 characters.
FilteredTokensAreLongNonStopWords ==
  op = "advancedPreprocess" =>
    \A i \in 1..Len(out.tokens) :
      /\ str(toLowerCase(out.tokens[i])) \notin STOP_WORDS
      /\ Len(out.tokens[i]) > 2

(***************************************************************************)
(* C22: the median of calculateSentimentMetrics.                           *)
(***************************************************************************)
scoresOf(records) == [i \in 1..Len(records) |-> records[i].score]

\* the k-th value of the scores taken in ascending order
kthSmallest(scores, k) ==
  CHOOSE v \in setOf(scores) :
    /\ Cardinality({j \in 1..Len(scores) : scores[j] < v}) < k
    /\ k <= Cardinality({j \in 1..Len(scores) : scores[j] <= v})

\* the middle value for an odd number of scores, the average of the two
\* middle values for an even number
medianOf(scores) ==
  IF Len(scores) % 2 = 1
  THEN Num(kthSmallest(scores, (Len(scores) + 1) \div 2))
  ELSE jsDiv(kthSmallest(scores, Len(scores) \div 2)
             + kthSmallest(scores, (Len(scores) \div 2) + 1), 2)

\* C22: for every non-empty collection of records the medianScore of
\* calculateSentimentMetrics is the single middle value of the ascending
\* scores when the number of records is odd and the average of the two
\* middle values when it is even, and the call leaves the caller's records
\* in their order.
MedianIsMiddleOfSortedScores ==
  [][(op' = "calculateSentimentMetrics" /\ Len(input) > 0) =>
       /\ input' = input
       /\ numEq(out'.medianScore, medianOf(scoresOf(input)))]_vars

\* four records whose scores are not in ascending order and whose two middle
\* values differ: the median 1.5 lies between them
MedianIsMiddleOfSortedScoresWitness ==
  /\ op = "calculateSentimentMetrics"
  /\ Len(input) = 4
  /\ \E i \in 1..3 : input[i].score > input[i + 1].score
  /\ kthSmallest(scoresOf(input), 2) = 0
  /\ kthSmallest(scoresOf(input), 3) = 3
  /\ out.medianScore.n * 2 = out.medianScore.d * 3

(***************************************************************************)
(* C23: the top words of a polarity.                                       *)
(***************************************************************************)
\* the matched-token lists of a polarity over all records, one after another
matchedWords(records, type) ==
  concat([i \in 1..Len(records) |->
            IF type = "positive" THEN records[i].positive ELSE records[i].negative])

\* the position at which a word is first seen
firstSeen(words, w) == CHOOSE i \in 1..Len(words) : words[i] = w /\ \A j \in 1..(i - 1) : words[j] # w

\* list is a top-words list of the words: at most limit distinct words, each
\* with its number of occurrences, by descending frequency and first-seen
\* order among equals, no word left out being more frequent than one listed
isTopWordsList(list, words, limit) ==
  /\ Len(list) <= limit
  /\ \A i, j \in 1..Len(list) : i # j => list[i].word # list[j].word
  /\ \A i \in 1..Len(list) :
       /\ list[i].word \in setOf(words)
       /\ list[i].frequency = occurrences(words, list[i].word)
  /\ \A i, j \in 1..Len(list) :
       i < j =>
         \/ list[i].frequency > list[j].frequency
         \/ /\ list[i].frequency = list[j].frequency
            /\ firstSeen(words, list[i].word) < firstSeen(words, list[j].word)
  /\ \A w \in setOf(words) :
       (\A i \in 1..Len(list) : list[i].word # w) =>
         \A i \in 1..Len(list) : occurrences(words, w) <= list[i].frequency

\* C23: for each polarity the top-words list holds at most 10 distinct
\* words, each with frequency equal to its number of occurrences in that
\* polarity's matched-token lists over all records, ordered by descending
\* frequency with words of equal frequency in first-seen order; no word
\* left out has a higher frequency than a word listed.
TopWordsAreMostFrequent ==
  op = "generateDashboardMetrics" =>
    /\ isTopWordsList(out.topPositiveWords, matchedWords(input, "positive"), 10)
    /\ isTopWordsList(out.topNegativeWords, matchedWords(input, "negative"), 10)

\* twelve distinct positive words, the most frequent one first seen last:
\* it comes first, ten are kept and two of frequency 1 are left out
TopWordsAreMostFrequentWitness ==
  /\ op = "generateDashboardMetrics"
  /\ Cardinality(setOf(matchedWords(input, "positive"))) = 12
  /\ Len(out.topPositiveWords) = 10
  /\ out.topPositiveWords[1].word = matchedWords(input, "positive")[12]
  /\ out.topPositiveWords[1].frequency = 3
  /\ out.topPositiveWords[2].frequency = 2
  /\ out.topPositiveWords[10].frequency = 1
  /\ Len(out.topNegativeWords) = 2

(***************************************************************************)
(* C24: the word cloud.                                                    *)
(***************************************************************************)
\* the tokens lists of all records, one after another
allTokens(records) == concat([i \in 1..Len(records) |-> records[i].tokens])

\* the last record, in input order, whose tokens hold the token
lastRecordWith(records, token) ==
  CHOOSE i \in 1..Len(records) :
    /\ token \in setOf(records[i].tokens)
    /\ \A j \in (i + 1)..Len(records) : token \notin setOf(records[j].tokens)

\* C24: the word cloud holds at most 20 distinct tokens, all of more than 2
\* characters, each with frequency equal to its number of occurrences in
\* the tokens lists of all records and with the lower-cased label of the
\* last record in which it appears, ordered by descending frequency.
WordCloudCountsLongTokens ==
  op = "generateDashboardMetrics" =>
    /\ Len(out.wordCloud) <= 20
    /\ \A i, j \in 1..Len(out.wordCloud) :
         i # j => out.wordCloud[i].word # out.wordCloud[j].word
    /\ \A i \in 1..Len(out.wordCloud) :
         /\ Len(out.wordCloud[i].word) > 2
         /\ out.wordCloud[i].word \in setOf(allTokens(input))
         /\ out.wordCloud[i].frequency = occurrences(allTokens(input), out.wordCloud[i].word)
         /\ out.wordCloud[i].sentiment
              = toLowerLabel(input[lastRecordWith(input, out.wordCloud[i].word)].label)
    /\ \A i \in 1..(Len(out.wordCloud) - 1) :
         out.wordCloud[i].frequency >= out.wordCloud[i + 1].frequency

\* 22 distinct long tokens and a short one over three records: 20 are kept,
\* the first seen in a positive and last in a negative record
WordCloudCountsLongTokensWitness ==
  /\ op = "generateDashboardMetrics"
  /\ Cardinality({t \in setOf(allTokens(input)) : Len(t) > 2}) = 22
  /\ \E t \in setOf(allTokens(input)) : Len(t) <= 2
  /\ Len(out.wordCloud) = 20
  /\ out.wordCloud[1].frequency = 3
  /\ out.wordCloud[1].sentiment = "negative"
  /\ out.wordCloud[1].word \in setOf(input[1].tokens) \cup setOf(input[2].tokens)
  /\ input[1].label = "Positive" /\ input[2].label = "Positive"

(***************************************************************************)
(* C25: the sentiment trend.                                               *)
(***************************************************************************)
\* the text of a timestamp before its 'T'
textBeforeT(timestamp) ==
  IF \E i \in 1..Len(timestamp) : timestamp[i] = "T"
  THEN SubSeq(timestamp, 1, (CHOOSE i \in 1..Len(timestamp) :
                               timestamp[i] = "T" /\ \A j \in 1..(i - 1) : timestamp[j] # "T") - 1)
  ELSE timestamp

\* the records of a date
recordsOn(records, date) ==
  {i \in 1..Len(records) : textBeforeT(records[i].timestamp) = date}

labelledOn(records, date, label) ==
  Cardinality({i \in recordsOn(records, date) : records[i].label = label})

\* the code of a character of a date
dateCharCode(c) ==
  CASE c = "-" -> 45
    [] c = "0" -> 48 [] c = "1" -> 49 [] c = "2" -> 50 [] c = "3" -> 51
    [] c = "4" -> 52 [] c = "5" -> 53 [] c = "6" -> 54 [] c = "7" -> 55
    [] c = "8" -> 56 [] c = "9" -> 57

\* a comes strictly before b as a string
dateStringLess(a, b) ==
  \/ Len(a) < Len(b) /\ a = SubSeq(b, 1, Len(a))
  \/ \E i \in 1..minOf(Len(a), Len(b)) :
       /\ SubSeq(a, 1, i - 1) = SubSeq(b, 1, i - 1)
       /\ dateCharCode(a[i]) < dateCharCode(b[i])

\* C25: the sentiment trend has exactly one point per distinct date portion
\* (the text before 'T') of the record timestamps, in strictly ascending
\* date-string order; the positive, negative and neutral counts of a point
\* tally the records of its date, so the counts summed over the points are
\* the overall positiveCount, negativeCount and neutralCount, and no point
\* is empty.
TrendHasOnePointPerDate ==
  op = "generateDashboardMetrics" =>
    /\ {out.sentimentTrend[p].timestamp : p \in 1..Len(out.sentimentTrend)}
         = {textBeforeT(input[i].timestamp) : i \in 1..Len(input)}
    /\ \A p \in 1..(Len(out.sentimentTrend) - 1) :
         dateStringLess(out.sentimentTrend[p].timestamp, out.sentimentTrend[p + 1].timestamp)
    /\ \A p \in 1..Len(out.sentimentTrend) :
         /\ out.sentimentTrend[p].positiveCount
              = labelledOn(input, out.sentimentTrend[p].timestamp, "Positive")
         /\ out.sentimentTrend[p].negativeCount
              = labelledOn(input, out.sentimentTrend[p].timestamp, "Negative")
         /\ out.sentimentTrend[p].neutralCount
              = labelledOn(input, out.sentimentTrend[p].timestamp, "Neutral")
         /\ out.sentimentTrend[p].positiveCount + out.sentimentTrend[p].negativeCount
              + out.sentimentTrend[p].neutralCount > 0
    /\ sumSeq([p \in 1..Len(out.sentimentTrend) |-> out.sentimentTrend[p].positiveCount])
         = out.positiveCount
    /\ sumSeq([p \in 1..Len(out.sentimentTrend) |-> out.sentimentTrend[p].negativeCount])
         = out.negativeCount
    /\ sumSeq([p \in 1..Len(out.sentimentTrend) |-> out.sentimentTrend[p].neutralCount])
         = out.neutralCount

\* three records of two dates, the later date first: two points, the first
\* of them with the two records of the earlier date
TrendHasOnePointPerDateWitness ==
  /\ op = "generateDashboardMetrics"
  /\ Len(input) = 3
  /\ dateStringLess(textBeforeT(input[2].timestamp), textBeforeT(input[1].timestamp))
  /\ textBeforeT(input[3].timestamp) = textBeforeT(input[2].timestamp)
  /\ input[2].label # input[3].label
  /\ Len(out.sentimentTrend) = 2
  /\ out.sentimentTrend[1].positiveCount + out.sentimentTrend[1].negativeCount
       + out.sentimentTrend[1].neutralCount = 2

(***************************************************************************)
(* C26: the bins of the histogram.                                         *)
(***************************************************************************)
\* x - y for two finite numbers
numSub(x, y) == numAdd(x, [n |-> 0 - y.n, d |-> y.d])

\* bins are count contiguous bins of the given width, the first starting at
\* start
areContiguousBins(bins, count, start, width) ==
  /\ Len(bins) = count
  /\ numEq(bins[1].min, Num(start))
  /\ \A b \in 1..(Len(bins) - 1) : numEq(bins[b].max, bins[b + 1].min)
  /\ \A b \in 1..Len(bins) : numEq(numSub(bins[b].max, bins[b].min), width)

\* C26: for a non-empty collection the histogram has exactly binCount (10)
\* contiguous equal-width bins starting at min(score), whose width is
\* (max(score) - min(score)) / binCount when the scores differ and 1 when
\* all scores are equal; for an empty collection it has no bins.
HistogramBinsWidthOne ==
  op = "createHistogramBins" =>
    IF Len(input) = 0 THEN out.bins = <<>>
    ELSE areContiguousBins(out.bins, 10, minScoreOf(scoresOf(input)),
           IF maxScoreOf(scoresOf(input)) # minScoreOf(scoresOf(input))
           THEN jsDiv(maxScoreOf(scoresOf(input)) - minScoreOf(scoresOf(input)), 10)
           ELSE Num(1))

\* C26 as the code has it: for a non-empty collection the histogram has
\* exactly binCount (10) contiguous equal-width bins starting at min(score),
\* whose width is (max(score) - min(score)) / binCount when the scores
\* differ and 1 / binCount when all scores are equal (the bins then span a
\* range of 1); for an empty collection it has no bins.
HistogramBinsSpanRangeOrOne ==
  op = "createHistogramBins" =>
    IF Len(input) = 0 THEN out.bins = <<>>
    ELSE areContiguousBins(out.bins, 10, minScoreOf(scoresOf(input)),
           IF maxScoreOf(scoresOf(input)) # minScoreOf(scoresOf(input))
           THEN jsDiv(maxScoreOf(scoresOf(input)) - minScoreOf(scoresOf(input)), 10)
           ELSE jsDiv(1, 10))

\* several records of one score: ten bins of width 0.1 from that score on
HistogramBinsSpanRangeOrOneWitness ==
  /\ op = "createHistogramBins"
  /\ Len(input) > 1
  /\ maxScoreOf(scoresOf(input)) = minScoreOf(scoresOf(input))
  /\ Len(out.bins) = 10
  /\ numEq(out.bins[1].min, Num(input[1].score))
  /\ numEq(out.bins[10].max, Num(input[1].score + 1))

(***************************************************************************)
(* C27: the membership of the histogram bins.                              *)
(***************************************************************************)
\* the bins whose bounds, both included, hold the score
binsHolding(bins, score) ==
  {b \in 1..Len(bins) : ~numLt(Num(score), bins[b].min) /\ ~numLt(bins[b].max, Num(score))}

\* the score lies on the boundary shared by two adjoining bins
onInteriorBoundary(bins, score) ==
  \E b \in 1..(Len(bins) - 1) :
    numEq(Num(score), bins[b].max) /\ numEq(Num(score), bins[b + 1].min)

\* C27: histogram membership uses inclusive bounds on both ends: every
\* score is counted in at least one bin, a score lying exactly on the
\* boundary shared by two adjoining bins is counted in both, and so the bin
\* counts sum to the number of records plus the number of scores lying on
\* an interior boundary, never less than the number of records.
HistogramCountsInclusive ==
  op = "createHistogramBins" =>
    /\ \A b \in 1..Len(out.bins) :
         out.bins[b].count
           = Cardinality({j \in 1..Len(input) : b \in binsHolding(out.bins, input[j].score)})
    /\ \A j \in 1..Len(input) : binsHolding(out.bins, input[j].score) # {}
    /\ \A j \in 1..Len(input) : \A b \in 1..(Len(out.bins) - 1) :
         (/\ numEq(Num(input[j].score), out.bins[b].max)
          /\ numEq(Num(input[j].score), out.bins[b + 1].min))
           => /\ out.bins[b].count > 0
              /\ out.bins[b + 1].count > 0
              /\ {b, b + 1} \subseteq binsHolding(out.bins, input[j].score)
    /\ sumSeq([b \in 1..Len(out.bins) |-> out.bins[b].count])
         = Len(input)
           + Cardinality({j \in 1..Len(input) : onInteriorBoundary(out.bins, input[j].score)})
    /\ sumSeq([b \in 1..Len(out.bins) |-> out.bins[b].count]) >= Len(input)

\* three records, one of them with a score on the boundary of two adjoining
\* bins: the counts of the bins sum to four
HistogramCountsInclusiveWitness ==
  /\ op = "createHistogramBins"
  /\ Len(input) = 3
  /\ Cardinality({j \in 1..Len(input) : onInteriorBoundary(out.bins, input[j].score)}) = 1
  /\ sumSeq([b \in 1..Len(out.bins) |-> out.bins[b].count]) = 4

(***************************************************************************)
(* C28: the key insights.                                                  *)
(***************************************************************************)
\* the share of the records with the label is above 60 percent
shareAbove60(records, label) ==
  Len(records) > 0
  /\ 100 * Cardinality({i \in 1..Len(records) : records[i].label = label})
       > 60 * Len(records)

\* the standard deviation of the scores is above 1.5: the squared
\* deviations from the mean, scaled by n * n, sum to more than 2.25 n^3
deviationAbove(scores) ==
  4 * sumSeq([i \in 1..Len(scores) |->
                (Len(scores) * scores[i] - sumSeq(scores))
                * (Len(scores) * scores[i] - sumSeq(scores))])
    > 9 * Len(scores) * Len(scores) * Len(scores)

\* the mean confidence of the records, 0 without records
meanConfidence(records) ==
  IF Len(records) = 0 THEN Zero
  ELSE divInt(sumNum([i \in 1..Len(records) |-> records[i].confidence]), Len(records))

\* C28: the key insights always hold exactly one distribution statement
\* (predominantly positive if positivePercentage > 60, else predominantly
\* negative if negativePercentage > 60, else mixed; exactly 60 is mixed),
\* exactly one variance statement (high variance if stdDeviation > 1.5,
\* else consistent) and at most one confidence statement (high if
\* averageConfidence > 85, low if averageConfidence < 65, none for 65 to 85
\* inclusive), in that order.
KeyInsightsInOrder ==
  op = "generateKeyInsights" =>
    /\ Len(out.key_insights) \in {2, 3}
    /\ out.key_insights[1]
         = IF shareAbove60(input, "Positive")
           THEN "Predominantly positive sentiment detected in reviews"
           ELSE IF shareAbove60(input, "Negative")
           THEN "Predominantly negative sentiment detected in reviews"
           ELSE "Mixed sentiment distribution across reviews"
    /\ out.key_insights[2]
         = IF deviationAbove(scoresOf(input))
           THEN "High variance in sentiment scores indicates diverse opinions"
           ELSE "Consistent sentiment pattern throughout reviews"
    /\ IF numLt(Num(85), meanConfidence(input))
       THEN /\ Len(out.key_insights) = 3
            /\ out.key_insights[3] = "High confidence in sentiment classifications"
       ELSE IF numLt(meanConfidence(input), Num(65))
       THEN /\ Len(out.key_insights) = 3
            /\ out.key_insights[3] = "Low confidence scores suggest ambiguous content"
       ELSE Len(out.key_insights) = 2

\* five records, three of them positive (exactly 60 percent) and of mean
\* confidence exactly 85: a mixed statement and no confidence statement
KeyInsightsInOrderWitness ==
  /\ op = "generateKeyInsights"
  /\ Len(input) = 5
  /\ Cardinality({i \in 1..Len(input) : input[i].label = "Positive"}) = 3
  /\ numEq(meanConfidence(input), Num(85))
  /\ out.key_insights = <<"Mixed sentiment distribution across reviews",
                          "High variance in sentiment scores indicates diverse opinions">>

(***************************************************************************)
(* C29: the ids and the attention mask of encode.                          *)
(***************************************************************************)
\* the tokens of the vocabulary, as a set
vocabularyTokens(m) == {m.vocab[i] : i \in 1..Len(m.vocab)}

\* C29: for every text and every position i of the encode output,
\* input_ids[i] is the pad id (0) if and only if attention_mask[i] is 0: no
\* content token is given the id 0, a token outside the vocabulary gets
\* the [UNK] id 5, and every id of input_ids is in 0 .. vocabSize - 1.
PadIdOnlyWhereMasked ==
  op = "encode" =>
    /\ \A i \in 1..Len(out.encoded.input_ids) :
         /\ out.encoded.input_ids[i] = 0 <=> out.encoded.attention_mask[i] = 0
         /\ out.encoded.input_ids[i] \in 0..(model.config.vocabSize - 1)
    /\ \A k \in 1..minOf(Len(out.tokens), Len(out.encoded.input_ids) - 2) :
         /\ out.encoded.input_ids[k + 1] # 0
         /\ str(out.tokens[k]) \notin vocabularyTokens(model)
              => out.encoded.input_ids[k + 1] = 5

\* a text with a token of the vocabulary and a token outside it, padded
PadIdOnlyWhereMaskedWitness ==
  /\ op = "encode"
  /\ \E k \in 1..Len(out.tokens) :
       /\ str(out.tokens[k]) \notin vocabularyTokens(model)
       /\ out.encoded.input_ids[k + 1] = 5
  /\ \E k \in 1..Len(out.tokens) :
       /\ str(out.tokens[k]) \in vocabularyTokens(model)
       /\ out.encoded.input_ids[k + 1] \notin {0, 5}
  /\ out.encoded.input_ids[Len(out.tokens) + 3] = 0
  /\ out.encoded.attention_mask[Len(out.tokens) + 3] = 0

(***************************************************************************)
(* C30: the deferred analysis of the single-review UI.                     *)
(***************************************************************************)
\* at most one deferred analysis is pending, and loading is true exactly
\* while one is
onePendingWhileLoading ==
  /\ Len(out.timers) <= 1
  /\ out.loading <=> Len(out.timers) = 1

\* a submit is accepted only with loading false and a text that is not
\* blank, and sets loading with the text pending; the timer that fires makes
\* the result the analysis of the text submitted and clears loading
submitThenTimer ==
  /\ op' = "submit" =>
       /\ ~out.loading
       /\ \E i \in 1..Len(input) : input[i] \notin SpaceChars
       /\ out'.loading
       /\ out'.timers = <<input>>
       /\ out'.result = out.result
  /\ op' = "timer" =>
       /\ out.loading
       /\ out'.result = analyzeSentiment(out.timers[1])
       /\ ~out'.loading
       /\ out'.timers = <<>>

\* C30: in the single-review UI, after any sequence of typing, sample
\* selection, submit and tab-switch events, at most one deferred analysis
\* is pending and loading is true exactly while one is pending: a submit is
\* accepted only when loading is false and the text is not blank, it sets
\* loading to true, and when its timer fires the result becomes the
\* analysis of the submitted text and loading returns to false.
SingleDeferredAnalysis ==
  /\ [](onePendingWhileLoading)
  /\ [][submitThenTimer]_vars

\* the timer of a submitted positive review fired after the user had
\* switched to the batch tab
SingleDeferredAnalysisWitness ==
  /\ op = "timer"
  /\ out.activeTab = "batch"
  /\ out.result # NoResult
  /\ out.result.label = "Positive"
  /\ ~out.loading
  /\ out.timers = <<>>

====
